---- MODULE Spec2Model ----
(***************************************************************************)
(* Sandboxed test orchestrator: DockerCodeRunner.run, the driver harness   *)
(* produced by _generate_tests, and the verdict mapper _parse_test_results *)
(* (src/docker_runner/DockerCodeRunner.py), with the /run handler's answer *)
(* (src/main.py); _validate_function on its own (ValidateSpec) and the     *)
(* subject harness main.py produced by _generate_main (HarnessSpec).       *)
(* MapperSpec runs _parse_test_results over every small output of a test   *)
(* run, HandlerSpec the /run handler with the static scan analyze_code     *)
(* (src/app/docker_runner/static_analyzer.py), and ConcurrentSpec several  *)
(* calls of run interleaved on the executor's threads; ServiceSpec adds    *)
(* one /image/remove request (remove_docker_image) to those calls.         *)
(*                                                                         *)
(* Strings that the code takes apart (test ids, method names) are          *)
(* sequences of one-character strings; other texts are opaque tags.        *)
(* Every call to the container daemon may raise; host file operations on   *)
(* the private scratch directory do not.                                   *)
(***************************************************************************)
EXTENDS Integers, Sequences, FiniteSets, TLC

VARIABLES
    \* ---- arguments of DockerCodeRunner.run
    user_code, script_name, script_parameters, libraries, tests, cleanup,
    \* ---- one call of run (and the /run handler waiting for it)
    pc,             \* position in run
    temp_dir,       \* host scratch directory: "none" | "exists" | "removed"
    container,      \* local variable `container`: "unbound" | "bound"
    session,        \* session container: "absent" | "running" | "killed" | "removed"
    probe,          \* manifest-probe container: "absent" | "created" | "removed"
    kills, removes, \* completed kill() / remove() calls on the session container
    exc,            \* exception in flight ("none" when there is none)
    first_exc,      \* first exception raised inside run's try block
    install_output, \* value returned by _install_libraries
    pip_exit,       \* exit code of `pip install` (-1: not run)
    func_name,      \* local variable `func_name`, the name main.py looks up
    manifest,       \* where allowed_modules came from: "none" | "image" | "generated"
    allowed_modules,\* local variable `allowed_modules`: the module roots loaded
    log,            \* steps performed so far, in order
    driver_out,     \* (stdout, stderr, exit_code) of the driver harness
    result,         \* value returned by run
    response,       \* answer of the /run handler
    \* ---- the driver harness process (test_script.py)
    dpc,            \* position in the driver harness
    script,         \* generated test methods, in definition order
    suite,          \* test method names still to run
    successes, failures, errors,   \* CustomTestResult lists
    classified,     \* what _run_test_case classified, per executed method
    children,       \* what each executed method's subject process did
    \* ---- _validate_function called on its own
    validation,     \* its outcome (NoValue before the call)
    \* ---- one subject harness process (main.py)
    hpc,            \* position: "off" | "start" | "user" | "exited"
    raw_modules,    \* /allowed_modules.json in the container
    extra_allowed,  \* EXTRA_ALLOWED, pasted into main.py by _generate_main
    whitelist,      \* WHITELIST
    sys_modules,    \* module roots cached in sys.modules
    h_exit,         \* exit code (-1 while running)
    h_stdout,       \* "none" | "result": whether the result line was printed
    h_diag,         \* first JSON line on stderr
    h_trace,        \* what the user code did so far, with the hook's answers
    \* ---- one request to the /run handler (run_code)
    request,        \* the JSON body of the request
    rpc,            \* position: "off" | "received" | "running" | "answered"
    issues,         \* local variable `issues`, the value of analyze_code
    submitted,      \* whether runner.run was handed to the executor
    answer,         \* the HTTP answer
    \* ---- one request to the /image/remove handler (remove_docker_image)
    removal,        \* position, the containers listed, the container stopped
    \* ---- calls of run executing concurrently on the executor's threads
    calls,          \* per call: position and the locals temp_dir and container
    host_dirs,      \* per scratch directory name: the call that made it (0: none)
    containers,     \* per container id: the call that started it (0: id not
                    \* given out yet, -1: container removed)
    touched         \* every use of a directory or container so far

vars == <<user_code, script_name, script_parameters, libraries, tests, cleanup,
          pc, temp_dir, container, session, probe, kills, removes, exc,
          first_exc, install_output, pip_exit, func_name, manifest, allowed_modules, log,
          driver_out,
          result, response, dpc, script, suite, successes, failures, errors,
          classified, children, validation, hpc, raw_modules,
          extra_allowed, whitelist, sys_modules, h_exit, h_stdout, h_diag,
          h_trace, request, rpc, issues, submitted, answer, removal, calls,
          host_dirs, containers, touched>>

runInputs == <<user_code, script_name, script_parameters, libraries, tests, cleanup>>
installVars == <<install_output, pip_exit>>
runVars == <<pc, temp_dir, container, session, probe, kills, removes, exc,
             first_exc, installVars, func_name, manifest, allowed_modules, log, driver_out,
             result, response>>
runVarsButOutput == <<pc, temp_dir, container, session, probe, kills, removes,
                      exc, first_exc, installVars, func_name, manifest, allowed_modules, log,
                      result, response>>
harnessVars == <<hpc, raw_modules, extra_allowed, whitelist, sys_modules,
                 h_exit, h_stdout, h_diag, h_trace>>
handlerVars == <<request, rpc, issues, submitted, answer, removal>>
poolVars == <<calls, host_dirs, containers, touched>>
serverVars == <<handlerVars, poolVars>>
standaloneVars == <<validation, harnessVars, serverVars>>
driverVars == <<dpc, script, suite, successes, failures, errors, classified,
               children>>

(***************************************************************************)
(* Bounds                                                                  *)
(***************************************************************************)
\* top-level statements in a submission
MaxStmts == 2
\* test cases handed to the driver harness on its own
MaxCases == 2

NoValue == [t |-> "none"]

SeqsUpTo(S, n) == UNION {[1..k -> S] : k \in 0..n}

Max(S) == CHOOSE x \in S : \A y \in S : y <= x

(***************************************************************************)
(* Character strings                                                       *)
(***************************************************************************)
\* code-point order of the characters that occur in method names
CharOrder == <<"0", "1", "2", "3", "4", "5", "6", "7", "8", "9",
               "_", "a", "b", "c", "e", "s", "t">>

Ord(c) == CHOOSE i \in 1..Len(CharOrder) : CharOrder[i] = c

\* s < t in Python's string order
StrLess(s, t) ==
    \/ /\ Len(s) < Len(t)
       /\ \A i \in 1..Len(s) : s[i] = t[i]
    \/ \E k \in 1..Len(s) :
          /\ k <= Len(t)
          /\ \A i \in 1..(k-1) : s[i] = t[i]
          /\ Ord(s[k]) < Ord(t[k])

\* str(n) / f"{n}" for a small non-negative integer
IntToStr(n) == <<CharOrder[n + 1]>>

\* s.split('_')[-1]
LastSegment(s) ==
    LET us == {i \in 1..Len(s) : s[i] = "_"}
    IN  IF us = {} THEN s ELSE SubSeq(s, Max(us) + 1, Len(s))

(***************************************************************************)
(* JSON values: [t, v] with t the Python type after json.loads             *)
(***************************************************************************)
JStr(s)  == [t |-> "str",  v |-> s]
JList(q) == [t |-> "list", v |-> q]
JDict(d) == [t |-> "dict", v |-> d]

IsStr(x, s) == x.t = "str" /\ x.v = s

\* the text json.dumps(v) prints, and the other texts a process can print
Dumps(v) == [k |-> "json", v |-> v]
EmptyText == [k |-> "empty", v |-> NoValue]
PlainText == [k |-> "text", v |-> NoValue]

(***************************************************************************)
(* Submission validation                                                   *)
(***************************************************************************)
DefNode(n, a) == [kind |-> "def", name |-> n, args |-> a]
OtherNode == [kind |-> "other", name |-> "-", args |-> <<>>]

\* top-level statements of a submission: def f(x), def f(), def g(x), and a
\* statement that is no function definition
Nodes == {DefNode("f", <<"x">>), DefNode("f", <<>>), DefNode("g", <<"x">>), OtherNode}

\* a submission's source: whether ast.parse accepts it, and tree.body
Codes ==
    {[syntax_ok |-> FALSE, body |-> <<>>]} \cup
    {[syntax_ok |-> TRUE, body |-> b] : b \in SeqsUpTo(Nodes, MaxStmts)}

Range(q) == {q[i] : i \in 1..Len(q)}

Min(S) == CHOOSE x \in S : \A y \in S : x <= y

ValidationOk == [kind |-> "ok", missing |-> <<>>]

\* _validate_function if it looked at the last definition of the name
ValidationOutcomeLastDef(code, function_name, required_params) ==
    IF ~code.syntax_ok
    THEN [kind |-> "SyntaxError", missing |-> <<>>]
    ELSE LET hits == {i \in 1..Len(code.body) :
                         /\ code.body[i].kind = "def"
                         /\ code.body[i].name = function_name}
         IN  IF hits = {}
             THEN [kind |-> "FunctionMissing", missing |-> <<>>]
             ELSE LET node == code.body[Max(hits)]
                      IsMissing(p) == p \notin Range(node.args)
                      missing == SelectSeq(required_params, IsMissing)
                  IN  IF missing # <<>>
                      THEN [kind |-> "ParamMissing", missing |-> missing]
                      ELSE ValidationOk

\* _validate_function if it required the declared parameters to be among the
\* required ones
ValidationOutcomeSubset(code, function_name, required_params) ==
    IF ~code.syntax_ok
    THEN [kind |-> "SyntaxError", missing |-> <<>>]
    ELSE LET hits == {i \in 1..Len(code.body) :
                         /\ code.body[i].kind = "def"
                         /\ code.body[i].name = function_name}
         IN  IF hits = {}
             THEN [kind |-> "FunctionMissing", missing |-> <<>>]
             ELSE LET node == code.body[Min(hits)]
                      IsExtra(p) == p \notin Range(required_params)
                      extra == SelectSeq(node.args, IsExtra)
                  IN  IF extra # <<>>
                      THEN [kind |-> "ParamMissing", missing |-> extra]
                      ELSE ValidationOk

\* DockerCodeRunner._validate_function: "ok", or the exception it raises
ValidationOutcome(code, function_name, required_params) ==
    IF ~code.syntax_ok
    THEN [kind |-> "SyntaxError", missing |-> <<>>]
    ELSE LET hits == {i \in 1..Len(code.body) :
                         /\ code.body[i].kind = "def"
                         /\ code.body[i].name = function_name}
         IN  IF hits = {}
             THEN [kind |-> "FunctionMissing", missing |-> <<>>]
             ELSE LET node == code.body[Min(hits)]
                      IsMissing(p) == p \notin Range(node.args)
                      missing == SelectSeq(required_params, IsMissing)
                  IN  IF missing # <<>>
                      THEN [kind |-> "ParamMissing", missing |-> missing]
                      ELSE ValidationOk

\* DockerCodeRunner._extract_function_name: name of the first top-level def
ExtractFunctionName(code) ==
    LET defs == {i \in 1..Len(code.body) : code.body[i].kind = "def"}
    IN  IF defs = {} THEN "<raise>" ELSE code.body[Min(defs)].name

(***************************************************************************)
(* Test cases and the generated driver harness                             *)
(***************************************************************************)
TestIds == {<<"1">>, <<"a", "_", "b">>}

\* what str(test["results"][0]) is when pasted as Python source:
\*   "literal" an expression that evaluates to the expected value,
\*   "name"    a bare identifier (the expected value is a string such as abc),
\*   "invalid" not an expression at all (a string such as `a b`),
\*   "missing" results is the empty list
ExpectedKinds == {"literal", "name", "invalid", "missing"}

TestCases ==
    {[has_id |-> TRUE, id |-> i, expected |-> e] : i \in TestIds, e \in ExpectedKinds}
    \cup {[has_id |-> FALSE, id |-> <<>>, expected |-> e] : e \in ExpectedKinds}

MethodPrefix == <<"t", "e", "s", "t", "_", "c", "a", "s", "e", "_">>

\* test.get("id", f"{idx + 1}") for the case at 0-based position idx
TestIdOf(test, idx) == IF test.has_id THEN test.id ELSE IntToStr(idx + 1)

\* DockerCodeRunner._generate_tests: the method definitions, in order
\* (<<>> with raised = TRUE when test["results"][0] raises IndexError)
GenerateTests(ts) ==
    IF \E i \in 1..Len(ts) : ts[i].expected = "missing"
    THEN [raised |-> TRUE, methods |-> <<>>]
    ELSE [raised |-> FALSE,
          methods |-> [i \in 1..Len(ts) |->
                         [name     |-> MethodPrefix \o TestIdOf(ts[i], i - 1),
                          test_id  |-> TestIdOf(ts[i], i - 1),
                          expected |-> ts[i].expected,
                          case     |-> i]]]

\* the interpreter compiles test_script.py before it runs anything
CompileOk(methods) == \A i \in 1..Len(methods) : methods[i].expected # "invalid"

\* class body semantics: a later def of the same name replaces the earlier one
MethodNamed(methods, name) ==
    methods[Max({i \in 1..Len(methods) : methods[i].name = name})]

RECURSIVE SortNames(_)
SortNames(S) ==
    IF S = {} THEN <<>>
    ELSE LET least == CHOOSE x \in S : \A y \in S \ {x} : StrLess(x, y)
         IN  <<least>> \o SortNames(S \ {least})

\* unittest.TestLoader().loadTestsFromTestCase: method names, sorted
LoadTests(methods) == SortNames({methods[i].name : i \in 1..Len(methods)})

(***************************************************************************)
(* One subject process, as the driver observes it                          *)
(***************************************************************************)
NoDiag  == [k |-> "none", type |-> "-", message |-> "-"]
BadDiag == [k |-> "bad",  type |-> "-", message |-> "-"]
Diag(ty, msg) == [k |-> "json", type |-> ty, message |-> msg]

\* first stderr line that starts with "{": none, unparseable, or a diagnostic
DiagLines ==
    {NoDiag, BadDiag} \cup
    {Diag("RUNTIME_ERROR", msg) : msg \in {"", "diagnostic message"}}

Child(to, ec, out, d) ==
    [timeout |-> to, exit_code |-> ec, stdout |-> out, diag |-> d, orphan |-> FALSE]

\* a subject that leaves a descendant process behind which keeps the write
\* ends of the subject's stdout and stderr pipes open and never exits
Orphaning(c) == [c EXCEPT !.orphan = TRUE]

\* timeout: communicate() raised TimeoutExpired; stdout: how the last line of
\* the child's stdout relates to the expected value
ChildOutcomes ==
    {Child(TRUE, 0, "invalid", NoDiag), Orphaning(Child(TRUE, 0, "invalid", NoDiag))}
    \cup {Child(FALSE, 42, "invalid", d) : d \in DiagLines}
    \cup {Child(FALSE, 2, "invalid", NoDiag)}
    \cup {Child(FALSE, 1, "invalid", d) : d \in {NoDiag, Diag("RUNTIME_ERROR", "diagnostic message")}}
    \cup {Child(FALSE, 0, out, d) : out \in {"equal", "differ", "invalid"}, d \in DiagLines}

Classified(ty, err) == [type |-> ty, error |-> err]

\* ScriptTestCase._run_test_case: (_test_error_type, _test_error) when it
\* reaches its last statement; "None" is Python's None
RunTestCase(child) ==
    IF child.timeout
    THEN Classified("TIMEOUT", "time limit exceeded")
    ELSE IF child.exit_code = 42
    THEN Classified("SECURITY_VIOLATION",
                    IF child.diag.k = "json" THEN child.diag.message
                    ELSE "security policy violation")
    ELSE IF child.exit_code = 2
    THEN Classified("MAIN_NOT_FOUND", "main.py not found")
    ELSE IF child.exit_code # 0
    THEN Classified("NON_ZERO_EXIT", "exit code and stderr")
    ELSE IF child.stdout = "invalid"
    THEN Classified("INVALID_OUTPUT", "invalid JSON output")
    ELSE IF child.stdout = "differ"
    THEN Classified("ASSERTION_ERROR", "result != expected")
    ELSE IF child.diag.k = "json"
    THEN Classified(child.diag.type, child.diag.message)
    ELSE Classified("None", "None")

Truthy(s) == s \notin {"None", ""}

\* lines 637-638: after proc.kill() the second communicate() has no timeout and
\* returns when both pipes reach end of file, which a descendant that holds
\* them open and never exits prevents
KillWaitReturns(child) == ~(child.timeout /\ child.orphan)

\* one test method run by unittest: where the test lands in the result object
\* ("success" | "failure" | "error") and the attributes left on the test
RunMethod(method, child) ==
    IF method.expected = "name"
    THEN [name |-> method.name, list |-> "error", has_attrs |-> FALSE,
          type |-> "None", error |-> "None"]
    ELSE LET c == RunTestCase(child)
         IN  [name |-> method.name,
              list |-> IF Truthy(c.error) THEN "failure" ELSE "success",
              has_attrs |-> TRUE, type |-> c.type, error |-> c.error]

SuccessVerdict(r) ==
    JDict([id     |-> JStr(LastSegment(r.name)),
           name   |-> JStr(r.name),
           status |-> JStr("success")])

FailVerdict(r) ==
    JDict([id        |-> JStr(LastSegment(r.name)),
           name      |-> JStr(r.name),
           status    |-> JStr("fail"),
           error     |-> JStr(IF r.has_attrs THEN r.error ELSE "Unknown error"),
           traceback |-> JStr("traceback")])

\* the driver's __main__ block after runner.run(suite): the printed array
EmitVerdicts(succ, fail, errs) ==
    LET bad == fail \o errs
    IN  JList([i \in 1..Len(succ) |-> SuccessVerdict(succ[i])]
              \o [i \in 1..Len(bad) |-> FailVerdict(bad[i])])

(***************************************************************************)
(* Verdict mapper                                                          *)
(***************************************************************************)
ErrorMarkers == {"SECURITY_ERROR", "IMPORT_ERROR", "RUNTIME_ERROR"}

\* a stderr text: whether it is empty and which marker words occur in it
Stderr(e, m) == [empty |-> e, marks |-> m]
NoStderr == Stderr(TRUE, {})

Returned(r) == [raised |-> FALSE, exc |-> "none", value |-> r]
Raised(e)   == [raised |-> TRUE,  exc |-> e,      value |-> NoValue]

ErrorResultAsSuccess(ty, msg, stdout, stderr, inst) ==
    [status |-> "success",
     error |-> [type |-> ty, message |-> msg],
     install_output |-> inst,
     raw_output |-> stdout,
     stderr |-> stderr]

ErrorResult(ty, msg, stdout, stderr, inst) ==
    [status |-> "fail",
     error |-> [type |-> ty, message |-> msg],
     install_output |-> inst,
     raw_output |-> stdout,
     stderr |-> stderr]

NormaliseVerdictEveryFail(test) ==
    IF "status" \in DOMAIN test.v /\ IsStr(test.v["status"], "fail")
    THEN JDict([f \in DOMAIN test.v \cup {"error"} |->
                  IF f = "error"
                  THEN JDict([type    |-> JStr("TEST_FAILURE"),
                              message |-> IF "error" \in DOMAIN test.v
                                          THEN test.v["error"]
                                          ELSE JStr("test failed")])
                  ELSE test.v[f]])
    ELSE test

\* the loop body of lines 341-347
NormaliseVerdict(test) ==
    IF /\ "status" \in DOMAIN test.v
       /\ IsStr(test.v["status"], "fail")
       /\ \/ "error" \notin DOMAIN test.v
          \/ test.v["error"].t # "dict"
    THEN JDict([f \in DOMAIN test.v \cup {"error"} |->
                  IF f = "error"
                  THEN JDict([type    |-> JStr("TEST_FAILURE"),
                              message |-> IF "error" \in DOMAIN test.v
                                          THEN test.v["error"]
                                          ELSE JStr("test failed")])
                  ELSE test.v[f]])
    ELSE test

StatusAlwaysSuccess(exit_code) == "success"

StatusFromExitCode(exit_code) == IF exit_code = 0 THEN "success" ELSE "fail"

EmptyOutputTypeIgnoresStderr(stderr) == "EMPTY_OUTPUT"

\* line 310, the error type reported for an empty standard output
EmptyOutputType(stderr) ==
    IF stderr.empty THEN "EMPTY_OUTPUT" ELSE "RUNTIME_ERROR"

DecodeErrorTypeRuntimeFirst(stderr) ==
    IF "RUNTIME_ERROR" \in stderr.marks THEN "RUNTIME_ERROR"
    ELSE IF "SECURITY_ERROR" \in stderr.marks THEN "SECURITY_VIOLATION"
    ELSE IF "IMPORT_ERROR" \in stderr.marks THEN "IMPORT_ERROR"
    ELSE "PARSE_ERROR"

\* lines 358-368, the error type chosen by the JSONDecodeError handler
DecodeErrorType(stderr) ==
    IF "SECURITY_ERROR" \in stderr.marks THEN "SECURITY_VIOLATION"
    ELSE IF "IMPORT_ERROR" \in stderr.marks THEN "IMPORT_ERROR"
    ELSE IF "RUNTIME_ERROR" \in stderr.marks THEN "RUNTIME_ERROR"
    ELSE "PARSE_ERROR"

\* DockerCodeRunner._parse_test_results
ParseTestResults(stdout, stderr, exit_code, inst) ==
    IF stdout.k = "empty"
    THEN Returned(ErrorResult(EmptyOutputType(stderr),
                              IF stderr.empty THEN JStr("no output") ELSE JStr(stderr),
                              stdout, stderr, inst))
    ELSE IF stdout.k = "text"
    THEN Returned(ErrorResult(DecodeErrorType(stderr),
                              JStr("decode error or stderr tail"),
                              stdout, stderr, inst))
    ELSE IF stdout.v.t # "list"
    THEN Returned(ErrorResult("INVALID_TEST_STRUCTURE", JStr("list expected"),
                              stdout, stderr, inst))
    ELSE IF \E i \in 1..Len(stdout.v.v) : stdout.v.v[i].t # "dict"
    THEN Raised("AttributeError")
    ELSE Returned([status |-> StatusFromExitCode(exit_code),
                   install_output |-> inst,
                   test_output |-> stdout,
                   test_statuses |-> [i \in 1..Len(stdout.v.v) |->
                                        NormaliseVerdict(stdout.v.v[i])]])

(***************************************************************************)
(* The driver harness as one process: everything it can print              *)
(***************************************************************************)
DriverOut(out, err, ec) == [stdout |-> out, stderr |-> err, exit_code |-> ec]
NoDriverOut == DriverOut(EmptyText, NoStderr, -1)

IsSuccess(r) == r.list = "success"
IsFailure(r) == r.list = "failure"
IsError(r)   == r.list = "error"

\* test_script.py from start to exit, for the runs in which it exits: a
\* SyntaxError before anything runs, or every method run in suite order and
\* the verdict array printed (exit code 0)
DriverOutputs(methods) ==
    IF ~CompileOk(methods)
    THEN {DriverOut(EmptyText, Stderr(FALSE, {}), 1)}
    ELSE LET names == LoadTests(methods)
         IN  {LET rs == [i \in 1..Len(names) |->
                           RunMethod(MethodNamed(methods, names[i]), f[i])]
              IN  DriverOut(Dumps(EmitVerdicts(SelectSeq(rs, IsSuccess),
                                               SelectSeq(rs, IsFailure),
                                               SelectSeq(rs, IsError))),
                            Stderr(FALSE, {}), 0)
              : f \in [1..Len(names) -> {c \in ChildOutcomes : KillWaitReturns(c)}]}

(***************************************************************************)
(* The subject harness main.py produced by _generate_main                  *)
(***************************************************************************)
\* dotted module names are sequences of components; args[0].split('.')[0]
RootOf(name) == name[1]

\* lines 423-425, the names that are whitelisted whatever the manifest holds
DefaultWhitelist == {"sys", "json", "builtins", "org", "ctypes"}

\* lines 428-432
BLACKLIST == {"os", "subprocess", "socket", "threading", "multiprocessing",
              "signal", "shutil", "sysconfig", "requests", "urllib",
              "inspect", "compileall"}

\* lines 417-425: ALLOWED_MODULES from the manifest file, EXTRA_ALLOWED from
\* the list pasted into the source
WHITELIST(raw, extra) == DefaultWhitelist \cup raw \cup extra

\* line 471: the import branch of audit_hook lets the event pass
ImportAdmitted(wl, module) == ~(module \notin wl \/ module \in BLACKLIST)

\* a frame: root of f_globals['__name__'] ("" when absent) and where
\* f_globals['__file__'] lies ("none" when absent)
Frame(m, f) == [module |-> m, file |-> f]
MainFrame == Frame("__main__", "app")
StdlibFrame == Frame("json", "stdlib")
BareFrame == Frame("", "none")

\* lines 435-446
is_trusted_module(wl, frame) ==
    \/ frame.module # "" /\ frame.module \in wl
    \/ frame.file \in {"site-packages", "stdlib"}

\* line 452: how many frames audit_hook inspects, its own frame included
FrameScanDepth == 10

\* lines 450-458: stack[1] is the frame of audit_hook itself, stack[2] the
\* frame that called compile() or exec()
CompileAdmitted(wl, stack) ==
    \E i \in 1..Len(stack) :
        /\ i <= FrameScanDepth
        /\ is_trusted_module(wl, stack[i])

\* lines 394-398 and interpreter start-up: modules already in sys.modules
\* when user code starts (an import of a cached module raises no audit event)
SysModulesAtStart == {"sys", "json", "builtins", "io", "traceback", "os"}

\* /allowed_modules.json as main.py finds it: unreadable, or an array of roots
ManifestFile(roots) == [readable |-> TRUE, roots |-> roots]
NoManifestFile == [readable |-> FALSE, roots |-> {}]

HarnessOff ==
    /\ hpc = "off"
    /\ raw_modules = NoManifestFile
    /\ extra_allowed = {}
    /\ whitelist = {}
    /\ sys_modules = {}
    /\ h_exit = -1
    /\ h_stdout = "none"
    /\ h_diag = NoDiag
    /\ h_trace = <<>>

\* no request being handled
NoRequest == [fields_ok |-> FALSE, tests |-> "records", language |-> "python",
              code |-> [syntax_ok |-> TRUE, walk |-> <<>>]]
NoAnswer == [code |-> 0, kind |-> "none"]

\* remove_docker_image: its position, the local `containers` still to go
\* through, and the container it has stopped and not yet removed (0: none)
Removal(p, listed, stopped) == [pc |-> p, listed |-> listed, stopped |-> stopped]

HandlerOff ==
    /\ request = NoRequest
    /\ rpc = "off"
    /\ issues = <<>>
    /\ submitted = FALSE
    /\ answer = NoAnswer
    /\ removal = Removal("off", {}, 0)

\* no call of run on the executor's threads
PoolOff ==
    /\ calls = <<>>
    /\ host_dirs = <<>>
    /\ containers = <<>>
    /\ touched = {}

ServerOff == HandlerOff /\ PoolOff

(***************************************************************************)
(* DockerCodeRunner.run, one call                                          *)
(***************************************************************************)
NoLibraries == <<>>
SomeLibraries == <<"numpy">>

Case(h, i, e) == [has_id |-> h, id |-> i, expected |-> e]

\* the test lists handed to run
RunTestLists ==
    {<<>>,
     <<Case(FALSE, <<>>, "literal")>>,
     <<Case(FALSE, <<>>, "invalid")>>,
     <<Case(FALSE, <<>>, "missing")>>}

Step(s, ok) == [step |-> s, ok |-> ok]

\* an exception raised inside the inner try block: control goes to its finally
RaiseInTry(e, step) ==
    /\ exc' = e
    /\ first_exc' = IF first_exc = "none" THEN e ELSE first_exc
    /\ log' = Append(log, Step(step, FALSE))
    /\ pc' = "cleanup"

Init ==
    /\ user_code \in Codes
    /\ script_name = "f"
    /\ script_parameters \in {<<>>, <<"x">>}
    /\ libraries \in {NoLibraries, SomeLibraries}
    /\ tests \in RunTestLists
    /\ cleanup \in BOOLEAN
    /\ pc = "validate"
    /\ temp_dir = "none"
    /\ container = "unbound"
    /\ session = "absent"
    /\ probe = "absent"
    /\ kills = 0
    /\ removes = 0
    /\ exc = "none"
    /\ first_exc = "none"
    /\ install_output = "none"
    /\ pip_exit = -1
    /\ func_name = "none"
    /\ manifest = "none"
    /\ allowed_modules = {}
    /\ log = <<>>
    /\ driver_out = NoDriverOut
    /\ result = NoValue
    /\ response = NoValue
    /\ dpc = "off"
    /\ script = <<>>
    /\ suite = <<>>
    /\ successes = <<>>
    /\ failures = <<>>
    /\ errors = <<>>
    /\ classified = <<>>
    /\ children = <<>>
    /\ validation = NoValue
    /\ HarnessOff
    /\ ServerOff

\* Validate with the outcome of _validate_function ignored
ValidateNoRaise ==
    /\ pc = "validate"
    /\ pc' = "mkdtemp"
    /\ log' = Append(log, Step("validate",
                 ValidationOutcome(user_code, script_name, script_parameters).kind = "ok"))
    /\ UNCHANGED <<runInputs, standaloneVars, func_name, driverVars, temp_dir, container, session, probe,
                   kills, removes, exc, first_exc, installVars, manifest, allowed_modules,
                   driver_out, result, response>>

\* line 29: validation raises out of run before the try block is entered
Validate ==
    /\ pc = "validate"
    /\ LET o == ValidationOutcome(user_code, script_name, script_parameters)
       IN  IF o.kind = "ok"
           THEN /\ pc' = "mkdtemp"
                /\ log' = Append(log, Step("validate", TRUE))
                /\ UNCHANGED exc
           ELSE /\ pc' = "done"
                /\ log' = Append(log, Step("validate", FALSE))
                /\ exc' = o.kind
    /\ UNCHANGED <<runInputs, standaloneVars, func_name, driverVars, temp_dir, container, session, probe,
                   kills, removes, first_exc, installVars, manifest, allowed_modules,
                   driver_out, result, response>>

\* line 31
MakeTempDir ==
    /\ pc = "mkdtemp"
    /\ temp_dir' = "exists"
    /\ log' = Append(log, Step("mkdtemp", TRUE))
    /\ pc' = "start"
    /\ UNCHANGED <<runInputs, standaloneVars, func_name, driverVars, container, session, probe, kills,
                   removes, exc, first_exc, installVars, manifest, allowed_modules,
                   driver_out, result, response>>

\* line 37, _start_container
StartContainer ==
    /\ pc = "start"
    /\ \/ /\ session' = "running"
          /\ container' = "bound"
          /\ log' = Append(log, Step("provision", TRUE))
          /\ pc' = "install"
          /\ UNCHANGED <<exc, first_exc>>
       \/ /\ RaiseInTry("ProvisionError", "provision")
          /\ UNCHANGED <<session, container>>
    /\ UNCHANGED <<runInputs, standaloneVars, func_name, driverVars, temp_dir, probe, kills, removes,
                   installVars, manifest, allowed_modules, driver_out, result, response>>

\* InstallLibraries that goes on to the next step when pip exits non-zero
InstallContinuesAfterFailure ==
    /\ pc = "install"
    /\ IF libraries = NoLibraries
       THEN /\ install_output' = "No libraries to install"
            /\ log' = Append(log, Step("install", TRUE))
            /\ pc' = "load_image"
            /\ UNCHANGED <<exc, first_exc, pip_exit>>
       ELSE \/ /\ RaiseInTry("APIError", "install")
               /\ UNCHANGED <<install_output, pip_exit>>
            \/ /\ \E code \in {0, 1} :
                     /\ pip_exit' = code
                     /\ log' = Append(log, Step("install", code = 0))
               /\ install_output' = "pip output"
               /\ pc' = "load_image"
               /\ UNCHANGED <<exc, first_exc>>
    /\ UNCHANGED <<runInputs, standaloneVars, func_name, driverVars, temp_dir, container, session, probe,
                   kills, removes, manifest, allowed_modules, driver_out, result, response>>

\* InstallLibraries that reports a failed install as a result record
InstallFailureAsRecord ==
    /\ pc = "install"
    /\ IF libraries = NoLibraries
       THEN /\ install_output' = "No libraries to install"
            /\ log' = Append(log, Step("install", TRUE))
            /\ pc' = "load_image"
            /\ UNCHANGED <<exc, first_exc, pip_exit, result>>
       ELSE \/ /\ RaiseInTry("APIError", "install")
               /\ UNCHANGED <<install_output, pip_exit, result>>
            \/ /\ pip_exit' = 1
               /\ result' = [t |-> "result",
                             v |-> ErrorResult("INSTALL_ERROR", JStr("pip output"),
                                               EmptyText, NoStderr, "pip output")]
               /\ log' = Append(log, Step("install", FALSE))
               /\ pc' = "cleanup"
               /\ UNCHANGED <<exc, first_exc, install_output>>
            \/ /\ pip_exit' = 0
               /\ install_output' = "pip output"
               /\ log' = Append(log, Step("install", TRUE))
               /\ pc' = "load_image"
               /\ UNCHANGED <<exc, first_exc, result>>
    /\ UNCHANGED <<runInputs, standaloneVars, func_name, driverVars, temp_dir, container, session, probe,
                   kills, removes, manifest, allowed_modules, driver_out, response>>

\* line 40, _install_libraries
InstallLibraries ==
    /\ pc = "install"
    /\ IF libraries = NoLibraries
       THEN /\ install_output' = "No libraries to install"
            /\ log' = Append(log, Step("install", TRUE))
            /\ pc' = "load_image"
            /\ UNCHANGED <<exc, first_exc, pip_exit>>
       ELSE \/ /\ RaiseInTry("APIError", "install")
               /\ UNCHANGED <<install_output, pip_exit>>
            \/ /\ pip_exit' = 1
               /\ RaiseInTry("InstallError", "install")
               /\ UNCHANGED install_output
            \/ /\ pip_exit' = 0
               /\ install_output' = "pip output"
               /\ log' = Append(log, Step("install", TRUE))
               /\ pc' = "load_image"
               /\ UNCHANGED <<exc, first_exc>>
    /\ UNCHANGED <<runInputs, standaloneVars, func_name, driverVars, temp_dir, container, session, probe,
                   kills, removes, manifest, allowed_modules, driver_out, result, response>>

\* what `cat /allowed_modules.json` prints in a container of the image
\* when it is an array of strings: a manifest baked without or with numpy
ImageManifests == {{"math", "os"}, {"math", "os", "numpy"}}

\* lines 118-195, generate_allowed_modules_script run in the session after
\* the install step: the modules found in the container, the requested
\* libraries that import among them
GeneratedManifest(libs) == {"math", "os", "threading"} \cup Range(libs)

\* what `cat /allowed_modules.json` prints in a container of the image
ManifestContents == {"absent", "malformed", "array_of_strings", "other_json"}

\* lines 43-47, _load_allowed_modules_from_image: any exception is caught by run
LoadAllowedModulesFromImage ==
    /\ pc = "load_image"
    /\ \E created \in BOOLEAN, started \in BOOLEAN, removed \in BOOLEAN,
          content \in ManifestContents :
          /\ probe' = IF ~created THEN "absent"
                      ELSE IF removed THEN "removed" ELSE "created"
          /\ IF created /\ started /\ removed
                /\ content \in {"array_of_strings", "other_json"}
             THEN /\ manifest' = content
                  /\ \E roots \in ImageManifests :
                        allowed_modules' = IF content = "array_of_strings"
                                           THEN roots ELSE {}
                  /\ log' = Append(log, Step("whitelist", TRUE))
                  /\ pc' = "stage"
             ELSE /\ UNCHANGED <<manifest, allowed_modules>>
                  /\ log' = Append(log, Step("whitelist_probe", TRUE))
                  /\ pc' = "gen_upload"
    /\ UNCHANGED <<runInputs, standaloneVars, func_name, driverVars, temp_dir, container, session, kills,
                   removes, exc, first_exc, installVars, driver_out, result,
                   response>>

\* lines 50-55: write the generator script, _prepare_container
GeneratorUpload ==
    /\ pc = "gen_upload"
    /\ \/ /\ log' = Append(log, Step("whitelist_upload", TRUE))
          /\ pc' = "gen_exec"
          /\ UNCHANGED <<exc, first_exc>>
       \/ RaiseInTry("APIError", "whitelist_upload")
    /\ UNCHANGED <<runInputs, standaloneVars, func_name, driverVars, temp_dir, container, session, probe,
                   kills, removes, installVars, manifest, allowed_modules, driver_out,
                   result, response>>

\* lines 58-60: _exec_in_container, non-zero exit raises RuntimeError
GeneratorExec ==
    /\ pc = "gen_exec"
    /\ \/ /\ log' = Append(log, Step("whitelist_exec", TRUE))
          /\ pc' = "gen_load"
          /\ UNCHANGED <<exc, first_exc>>
       \/ RaiseInTry("APIError", "whitelist_exec")
       \/ RaiseInTry("RuntimeError", "whitelist_exec")
    /\ UNCHANGED <<runInputs, standaloneVars, func_name, driverVars, temp_dir, container, session, probe,
                   kills, removes, installVars, manifest, allowed_modules, driver_out,
                   result, response>>

\* line 62, _load_allowed_modules_from_container
GeneratorLoad ==
    /\ pc = "gen_load"
    /\ \/ /\ manifest' = "generated"
          /\ allowed_modules' = GeneratedManifest(libraries)
          /\ log' = Append(log, Step("whitelist", TRUE))
          /\ pc' = "stage"
          /\ UNCHANGED <<exc, first_exc>>
       \/ /\ RaiseInTry("RuntimeError", "whitelist")
          /\ UNCHANGED <<manifest, allowed_modules>>
    /\ UNCHANGED <<runInputs, standaloneVars, func_name, driverVars, temp_dir, container, session, probe,
                   kills, removes, installVars, driver_out, result,
                   response>>

\* lines 67-72: _extract_function_name, _generate_main, _generate_tests
GenerateFiles ==
    /\ pc = "stage"
    /\ LET name == ExtractFunctionName(user_code)
           g == GenerateTests(tests)
       IN  IF name = "<raise>"
           THEN /\ RaiseInTry("Exception", "stage")
                /\ UNCHANGED <<func_name, script>>
           ELSE IF g.raised
           THEN /\ RaiseInTry("IndexError", "stage")
                /\ func_name' = name
                /\ UNCHANGED script
           ELSE /\ func_name' = name
                /\ script' = g.methods
                /\ log' = Append(log, Step("stage", TRUE))
                /\ pc' = "upload"
                /\ UNCHANGED <<exc, first_exc>>
    /\ UNCHANGED <<runInputs, standaloneVars, dpc, suite, successes, failures,
                   errors, classified, children, temp_dir, container, session,
                   probe, kills, removes, installVars, manifest, allowed_modules, driver_out,
                   result, response>>

\* line 75, _prepare_container
Upload ==
    /\ pc = "upload"
    /\ \/ /\ log' = Append(log, Step("upload", TRUE))
          /\ pc' = "exec"
          /\ UNCHANGED <<exc, first_exc>>
       \/ RaiseInTry("APIError", "upload")
    /\ UNCHANGED <<runInputs, standaloneVars, func_name, driverVars, temp_dir, container, session, probe,
                   kills, removes, installVars, manifest, allowed_modules, driver_out,
                   result, response>>

\* line 78, _run_tests: the driver harness runs inside the session container
RunTests ==
    /\ pc = "exec"
    /\ \/ /\ \E o \in DriverOutputs(script) : driver_out' = o
          /\ log' = Append(log, Step("exec", TRUE))
          /\ pc' = "map"
          /\ UNCHANGED <<exc, first_exc>>
       \/ /\ RaiseInTry("APIError", "exec")
          /\ UNCHANGED driver_out
    /\ UNCHANGED <<runInputs, standaloneVars, func_name, driverVars, temp_dir, container, session, probe,
                   kills, removes, installVars, manifest, allowed_modules, result, response>>

\* line 79: the value of the return statement, held while the finally blocks run
MapResults ==
    /\ pc = "map"
    /\ LET r == ParseTestResults(driver_out.stdout, driver_out.stderr,
                                 driver_out.exit_code, install_output)
       IN  IF r.raised
           THEN /\ RaiseInTry(r.exc, "map")
                /\ UNCHANGED result
           ELSE /\ result' = [t |-> "result", v |-> r.value]
                /\ log' = Append(log, Step("map", TRUE))
                /\ pc' = "cleanup"
                /\ UNCHANGED <<exc, first_exc>>
    /\ UNCHANGED <<runInputs, standaloneVars, func_name, driverVars, temp_dir, container, session, probe,
                   kills, removes, installVars, manifest, allowed_modules, driver_out,
                   response>>

\* an exception raised inside a finally block replaces the pending return
\* value or the exception in flight
RaiseInFinally(e, step) ==
    /\ exc' = e
    /\ result' = NoValue
    /\ log' = Append(log, Step(step, FALSE))
    /\ pc' = "rmtree"

\* lines 81-83 and 250: `if cleanup`, the read of `container`, container.kill()
CleanupContainer ==
    /\ pc = "cleanup"
    /\ IF ~cleanup
       THEN /\ pc' = "rmtree"
            /\ UNCHANGED <<exc, result, log, session, kills>>
       ELSE IF container = "unbound"
       THEN /\ RaiseInFinally("UnboundLocalError", "teardown")
            /\ UNCHANGED <<session, kills>>
       ELSE \/ /\ session' = "killed"
               /\ kills' = kills + 1
               /\ log' = Append(log, Step("kill", TRUE))
               /\ pc' = "remove"
               /\ UNCHANGED <<exc, result>>
            \/ /\ RaiseInFinally("TeardownError", "kill")
               /\ UNCHANGED <<session, kills>>
    /\ UNCHANGED <<runInputs, standaloneVars, func_name, driverVars, temp_dir, container, probe, removes,
                   first_exc, installVars, manifest, allowed_modules, driver_out, response>>

\* line 251: container.remove()
RemoveContainer ==
    /\ pc = "remove"
    /\ \/ /\ session' = "removed"
          /\ removes' = removes + 1
          /\ log' = Append(log, Step("remove", TRUE))
          /\ pc' = "rmtree"
          /\ UNCHANGED <<exc, result>>
       \/ /\ RaiseInFinally("TeardownError", "remove")
          /\ UNCHANGED <<session, removes>>
    /\ UNCHANGED <<runInputs, standaloneVars, func_name, driverVars, temp_dir, container, probe, kills,
                   first_exc, installVars, manifest, allowed_modules, driver_out, response>>

\* RemoveTempDir with rmtree placed after the try statement instead of in its
\* finally clause: skipped when an exception is propagating
RemoveTempDirUnlessRaising ==
    /\ pc = "rmtree"
    /\ temp_dir' = IF exc = "none" THEN "removed" ELSE temp_dir
    /\ log' = IF exc = "none" THEN Append(log, Step("rmtree", TRUE)) ELSE log
    /\ pc' = "done"
    /\ UNCHANGED <<runInputs, standaloneVars, func_name, driverVars, container, session, probe, kills,
                   removes, exc, first_exc, installVars, manifest, allowed_modules,
                   driver_out, result, response>>

\* lines 85-91: the except clause re-raises; the outer finally removes the
\* scratch directory; run returns or raises
RemoveTempDir ==
    /\ pc = "rmtree"
    /\ temp_dir' = "removed"
    /\ log' = Append(log, Step("rmtree", TRUE))
    /\ pc' = "done"
    /\ UNCHANGED <<runInputs, standaloneVars, func_name, driverVars, container, session, probe, kills,
                   removes, exc, first_exc, installVars, manifest, allowed_modules,
                   driver_out, result, response>>

\* src/main.py lines 84-92: future.result() and the handler's answer
Respond ==
    /\ pc = "done"
    /\ response' = IF exc # "none"
                   THEN [code |-> 500, kind |-> "error", error |-> exc]
                   ELSE [code |-> 200, kind |-> "result", error |-> "none"]
    /\ pc' = "responded"
    /\ UNCHANGED <<runInputs, standaloneVars, func_name, driverVars, temp_dir, container, session, probe,
                   kills, removes, exc, first_exc, installVars, manifest, allowed_modules,
                   log, driver_out, result>>

Next ==
    \/ Validate
    \/ MakeTempDir
    \/ StartContainer
    \/ InstallLibraries
    \/ LoadAllowedModulesFromImage
    \/ GeneratorUpload
    \/ GeneratorExec
    \/ GeneratorLoad
    \/ GenerateFiles
    \/ Upload
    \/ RunTests
    \/ MapResults
    \/ CleanupContainer
    \/ RemoveContainer
    \/ RemoveTempDir
    \/ Respond

Spec == Init /\ [][Next]_vars

(***************************************************************************)
(* The driver harness step by step: _generate_tests on the host, the       *)
(* generated test_script.py in the container, then the mapper on the host  *)
(***************************************************************************)
DriverInit ==
    /\ user_code = [syntax_ok |-> TRUE, body |-> <<DefNode("f", <<"x">>)>>]
    /\ script_name = "f"
    /\ script_parameters = <<"x">>
    /\ libraries = NoLibraries
    /\ tests \in SeqsUpTo(TestCases, MaxCases)
    /\ cleanup = TRUE
    /\ pc = "off"
    /\ temp_dir = "none"
    /\ container = "unbound"
    /\ session = "absent"
    /\ probe = "absent"
    /\ kills = 0
    /\ removes = 0
    /\ exc = "none"
    /\ first_exc = "none"
    /\ install_output = "No libraries to install"
    /\ pip_exit = -1
    /\ func_name = "none"
    /\ manifest = "none"
    /\ allowed_modules = {}
    /\ log = <<>>
    /\ driver_out = NoDriverOut
    /\ result = NoValue
    /\ response = NoValue
    /\ dpc = "generate"
    /\ script = <<>>
    /\ suite = <<>>
    /\ successes = <<>>
    /\ failures = <<>>
    /\ errors = <<>>
    /\ classified = <<>>
    /\ children = <<>>
    /\ validation = NoValue
    /\ HarnessOff
    /\ ServerOff

\* lines 546-557, _generate_tests
GenerateTestScript ==
    /\ dpc = "generate"
    /\ LET g == GenerateTests(tests)
       IN  IF g.raised
           THEN /\ exc' = "IndexError"
                /\ dpc' = "not_staged"
                /\ UNCHANGED script
           ELSE /\ script' = g.methods
                /\ dpc' = "load"
                /\ UNCHANGED exc
    /\ UNCHANGED <<runInputs, standaloneVars, func_name, pc, temp_dir, container, session, probe, kills,
                   removes, first_exc, installVars, manifest, allowed_modules, log, driver_out,
                   result, response, suite, successes, failures, errors,
                   classified, children>>

\* lines 666-667: the interpreter compiles test_script.py, the loader collects
\* the test methods of ScriptTestCase
DriverLoadTests ==
    /\ dpc = "load"
    /\ IF CompileOk(script)
       THEN /\ suite' = LoadTests(script)
            /\ dpc' = "run"
            /\ UNCHANGED driver_out
       ELSE /\ driver_out' = DriverOut(EmptyText, Stderr(FALSE, {}), 1)
            /\ dpc' = "exited"
            /\ UNCHANGED suite
    /\ UNCHANGED <<runInputs, standaloneVars, runVarsButOutput, script, successes, failures,
                   errors, classified, children>>

\* lines 668-669 and 567-653: runner.run(suite) runs the next test method
DriverRunTest ==
    /\ dpc = "run"
    /\ suite # <<>>
    /\ \E child \in ChildOutcomes :
          LET method == MethodNamed(script, Head(suite))
              r == RunMethod(method, child)
          IN  IF method.expected = "name" \/ KillWaitReturns(child)
              THEN /\ successes' = IF IsSuccess(r) THEN Append(successes, r) ELSE successes
                   /\ failures'  = IF IsFailure(r) THEN Append(failures, r) ELSE failures
                   /\ errors'    = IF IsError(r) THEN Append(errors, r) ELSE errors
                   /\ classified' = Append(classified, r)
                   /\ children' = Append(children, child)
                   /\ suite' = Tail(suite)
                   /\ UNCHANGED dpc
              ELSE /\ children' = Append(children, child)
                   /\ dpc' = "blocked"
                   /\ UNCHANGED <<successes, failures, errors, classified, suite>>
    /\ UNCHANGED <<runInputs, standaloneVars, runVarsButOutput, driver_out, script>>

\* lines 671-690: the verdict array is printed and the process ends
DriverPrintVerdicts ==
    /\ dpc = "run"
    /\ suite = <<>>
    /\ driver_out' = DriverOut(Dumps(EmitVerdicts(successes, failures, errors)),
                               Stderr(FALSE, {}), 0)
    /\ dpc' = "exited"
    /\ UNCHANGED <<runInputs, standaloneVars, runVarsButOutput, script, suite, successes,
                   failures, errors, classified, children>>

ParseDriverOutputStderrFirst ==
    /\ dpc = "exited"
    /\ LET r == ParseTestResults(IF driver_out.stderr.empty
                                 THEN driver_out.stdout ELSE EmptyText,
                                 driver_out.stderr,
                                 driver_out.exit_code, install_output)
       IN  /\ result' = IF r.raised THEN NoValue ELSE [t |-> "result", v |-> r.value]
           /\ exc' = r.exc
    /\ dpc' = "mapped"
    /\ UNCHANGED <<runInputs, standaloneVars, func_name, pc, temp_dir, container, session, probe, kills,
                   removes, first_exc, installVars, manifest, allowed_modules, log, driver_out,
                   response, script, suite, successes, failures, errors,
                   classified, children>>

\* lines 78-79: _run_tests hands the output to _parse_test_results
ParseDriverOutput ==
    /\ dpc = "exited"
    /\ LET r == ParseTestResults(driver_out.stdout, driver_out.stderr,
                                 driver_out.exit_code, install_output)
       IN  /\ result' = IF r.raised THEN NoValue ELSE [t |-> "result", v |-> r.value]
           /\ exc' = r.exc
    /\ dpc' = "mapped"
    /\ UNCHANGED <<runInputs, standaloneVars, func_name, pc, temp_dir, container, session, probe, kills,
                   removes, first_exc, installVars, manifest, allowed_modules, log, driver_out,
                   response, script, suite, successes, failures, errors,
                   classified, children>>

DriverNext ==
    \/ GenerateTestScript
    \/ DriverLoadTests
    \/ DriverRunTest
    \/ DriverPrintVerdicts
    \/ ParseDriverOutput

DriverSpec == DriverInit /\ [][DriverNext]_vars

\* the driver is one sequential process that takes its next step whenever it
\* has one
DriverFairSpec == DriverSpec /\ WF_vars(DriverNext)

(***************************************************************************)
(* _parse_test_results on its own, over every small output of a test run   *)
(***************************************************************************)
\* elements of a printed JSON array
MaxVerdicts == 2

\* the kinds of element a JSON array on standard output can hold: verdicts
\* as the driver prints them, a failing verdict whose error is an object or
\* is missing, objects that lack a field, and a value that is no object
ArrayElements ==
    <<JDict([id |-> JStr("1"), name |-> JStr("t.test_1"), status |-> JStr("success")]),
      JDict([id |-> JStr("2"), name |-> JStr("t.test_2"), status |-> JStr("fail"),
             error |-> JStr("AssertionError"), traceback |-> JStr("traceback")]),
      JDict([id |-> JStr("3"), name |-> JStr("t.test_3"), status |-> JStr("fail"),
             error |-> JDict([type |-> JStr("TIMEOUT"), message |-> JStr("timeout")])]),
      JDict([id |-> JStr("4"), name |-> JStr("t.test_4"), status |-> JStr("fail")]),
      JDict([id |-> JStr("5"), name |-> JStr("t.test_5")]),
      JDict([name |-> JStr("t.test_6"), status |-> JStr("success")]),
      JStr("text")>>

\* the standard outputs handed to _parse_test_results: no text, text that is
\* not JSON, JSON that is no array, and arrays of up to MaxVerdicts elements
MapperStdouts ==
    {EmptyText, PlainText, Dumps(JStr("text")),
     Dumps(JDict([status |-> JStr("success")]))}
    \cup {Dumps(JList([i \in 1..Len(q) |-> ArrayElements[q[i]]])) :
              q \in SeqsUpTo(1..Len(ArrayElements), MaxVerdicts)}

MapperStderrs == {NoStderr} \cup {Stderr(FALSE, m) : m \in SUBSET ErrorMarkers}

\* line 78: the (stdout, stderr, exit_code) of the exec that ran the driver
MapperInit ==
    /\ user_code = [syntax_ok |-> TRUE, body |-> <<DefNode("f", <<"x">>)>>]
    /\ script_name = "f"
    /\ script_parameters = <<"x">>
    /\ libraries = NoLibraries
    /\ tests = <<>>
    /\ cleanup = TRUE
    /\ pc = "off"
    /\ temp_dir = "none"
    /\ container = "unbound"
    /\ session = "absent"
    /\ probe = "absent"
    /\ kills = 0
    /\ removes = 0
    /\ exc = "none"
    /\ first_exc = "none"
    /\ install_output = "No libraries to install"
    /\ pip_exit = -1
    /\ func_name = "none"
    /\ manifest = "none"
    /\ allowed_modules = {}
    /\ log = <<>>
    /\ \E out \in MapperStdouts, err \in MapperStderrs, ec \in {0, 1} :
          driver_out = DriverOut(out, err, ec)
    /\ result = NoValue
    /\ response = NoValue
    /\ dpc = "exited"
    /\ script = <<>>
    /\ suite = <<>>
    /\ successes = <<>>
    /\ failures = <<>>
    /\ errors = <<>>
    /\ classified = <<>>
    /\ children = <<>>
    /\ validation = NoValue
    /\ HarnessOff
    /\ ServerOff

MapperNext == ParseDriverOutput

MapperSpec == MapperInit /\ [][MapperNext]_vars

(***************************************************************************)
(* _validate_function on its own, over every small submission              *)
(***************************************************************************)
\* formal parameter names handed to _validate_function
MaxParams == 2

ParamNames == {"x", "y"}

\* top-level statements: those of Nodes and def f(y, x)
ValidateNodes == Nodes \cup {DefNode("f", <<"y", "x">>)}

ValidateCodes ==
    {[syntax_ok |-> FALSE, body |-> <<>>]} \cup
    {[syntax_ok |-> TRUE, body |-> b] : b \in SeqsUpTo(ValidateNodes, MaxStmts)}

\* no call of run and no driver harness in progress
Idle ==
    /\ libraries = NoLibraries
    /\ tests = <<>>
    /\ cleanup = TRUE
    /\ pc = "off"
    /\ temp_dir = "none"
    /\ container = "unbound"
    /\ session = "absent"
    /\ probe = "absent"
    /\ kills = 0
    /\ removes = 0
    /\ exc = "none"
    /\ first_exc = "none"
    /\ install_output = "none"
    /\ pip_exit = -1
    /\ func_name = "none"
    /\ manifest = "none"
    /\ allowed_modules = {}
    /\ log = <<>>
    /\ driver_out = NoDriverOut
    /\ result = NoValue
    /\ response = NoValue
    /\ dpc = "off"
    /\ script = <<>>
    /\ suite = <<>>
    /\ successes = <<>>
    /\ failures = <<>>
    /\ errors = <<>>
    /\ classified = <<>>
    /\ children = <<>>

ValidateInit ==
    /\ user_code \in ValidateCodes
    /\ script_name \in {"f", "g"}
    /\ script_parameters \in SeqsUpTo(ParamNames, MaxParams)
    /\ Idle
    /\ validation = NoValue
    /\ HarnessOff
    /\ ServerOff

\* lines 260-276
ValidateFunction ==
    /\ validation = NoValue
    /\ HarnessOff
    /\ validation' = ValidationOutcome(user_code, script_name, script_parameters)
    /\ UNCHANGED <<runInputs, runVars, driverVars, harnessVars, serverVars>>

ValidateNext == ValidateFunction

ValidateSpec == ValidateInit /\ [][ValidateNext]_vars

(***************************************************************************)
(* One subject harness process: main.py from its first line to its exit.   *)
(* The user code is the sequence of imports and compile()/exec() calls it  *)
(* performs, each possibly inside try ... except BaseException.            *)
(***************************************************************************)
\* imports and compile()/exec() calls performed by the user code
MaxOps == 2
\* frames on the stack above the frame of audit_hook
MaxFrames == 2

\* modules the user code imports
ImportNames == {<<"os">>, <<"os", "path">>, <<"sys">>, <<"socket">>,
                <<"threading">>, <<"ctypes">>, <<"math">>, <<"decimal">>}

\* contents of /allowed_modules.json
Manifests == {{"math"}, {"math", "threading", "os"}, {"math", "ast"}}

\* call stacks at a compile or exec event, innermost frame first
Stacks ==
    {<<MainFrame>> \o st :
        st \in SeqsUpTo({MainFrame, StdlibFrame, BareFrame}, MaxFrames) \ {<<>>}}

ImportOp(root, raised, ok, c) ==
    [op |-> "import", root |-> root, stack |-> <<>>, event |-> raised,
     admitted |-> ok, caught |-> c]

CompileOp(stack, ok, c) ==
    [op |-> "compile", root |-> "", stack |-> stack, event |-> TRUE,
     admitted |-> ok, caught |-> c]

HarnessInit ==
    /\ user_code = [syntax_ok |-> TRUE, body |-> <<DefNode("f", <<"x">>)>>]
    /\ script_name = "f"
    /\ script_parameters = <<"x">>
    /\ Idle
    /\ validation = NoValue
    /\ hpc = "start"
    /\ raw_modules \in {NoManifestFile} \cup {ManifestFile(m) : m \in Manifests}
    /\ extra_allowed = raw_modules.roots
    /\ whitelist = {}
    /\ sys_modules = {}
    /\ h_exit = -1
    /\ h_stdout = "none"
    /\ h_diag = NoDiag
    /\ h_trace = <<>>
    /\ ServerOff

\* lines 394-432 and 483: load the manifest, build WHITELIST, install the hook
HarnessStart ==
    /\ hpc = "start"
    /\ IF ~raw_modules.readable
       THEN /\ h_diag' = Diag("SECURITY_VIOLATION", "manifest not loaded")
            /\ h_exit' = 42
            /\ hpc' = "exited"
            /\ UNCHANGED <<whitelist, sys_modules>>
       ELSE /\ whitelist' = WHITELIST(raw_modules.roots, extra_allowed)
            /\ sys_modules' = SysModulesAtStart
            /\ hpc' = "user"
            /\ UNCHANGED <<h_diag, h_exit>>
    /\ UNCHANGED <<runInputs, runVars, driverVars, validation, serverVars, raw_modules,
                   extra_allowed, h_stdout, h_trace>>

\* audit_hook prints its diagnostic and calls sys.exit(42): SystemExit is
\* raised at the statement that caused the event and ends the process unless
\* the user code catches it
HookRejects(msg, c) ==
    /\ h_diag' = IF h_diag = NoDiag THEN Diag("SECURITY_VIOLATION", msg) ELSE h_diag
    /\ IF c
       THEN UNCHANGED <<hpc, h_exit>>
       ELSE hpc' = "exited" /\ h_exit' = 42

\* an import statement of the user code; lines 469-480 when the module is
\* not cached and the import event is raised
UserImport ==
    /\ hpc = "user"
    /\ Len(h_trace) < MaxOps
    /\ \E name \in ImportNames, c \in BOOLEAN :
          LET root == RootOf(name)
              cached == root \in sys_modules
              ok == cached \/ ImportAdmitted(whitelist, root)
          IN  /\ ok => ~c
              /\ h_trace' = Append(h_trace, ImportOp(root, ~cached, ok, c))
              /\ IF ok
                 THEN /\ sys_modules' = sys_modules \cup {root}
                      /\ UNCHANGED <<hpc, h_exit, h_diag>>
                 ELSE /\ HookRejects("import forbidden", c)
                      /\ UNCHANGED sys_modules
    /\ UNCHANGED <<runInputs, runVars, driverVars, validation, serverVars, raw_modules,
                   extra_allowed, whitelist, h_stdout>>

\* a compile() or exec() call reached from the user code; lines 450-467
UserCompile ==
    /\ hpc = "user"
    /\ Len(h_trace) < MaxOps
    /\ \E stack \in Stacks, c \in BOOLEAN :
          LET ok == CompileAdmitted(whitelist, stack)
          IN  /\ ok => ~c
              /\ h_trace' = Append(h_trace, CompileOp(stack, ok, c))
              /\ IF ok
                 THEN UNCHANGED <<hpc, h_exit, h_diag>>
                 ELSE HookRejects("dynamic code forbidden", c)
    /\ UNCHANGED <<runInputs, runVars, driverVars, validation, serverVars, raw_modules,
                   extra_allowed, whitelist, sys_modules, h_stdout>>

\* how the call of the user function ends: it returns a value other than
\* None, returns None, raises an Exception, or raises SystemExit(0)
EndOp(kind) ==
    [op |-> kind, root |-> "", stack |-> <<>>, event |-> FALSE,
     admitted |-> TRUE, caught |-> FALSE]

\* lines 536-541: the modules traceback.format_exc() imports while it formats
\* the frames of the exception (the caret anchors of Python 3.11)
FormatExcImports == {"ast"}

\* lines 501-543: the function returns a value that is printed; or it returns
\* None or raises, and the handler formats the traceback, which the hook lets
\* pass or ends with exit code 42, and prints the RUNTIME_ERROR diagnostic
UserReturn ==
    /\ hpc = "user"
    /\ \E end \in {"return_value", "return_none", "raise"} :
          /\ h_trace' = Append(h_trace, EndOp(end))
          /\ IF end = "return_value"
             THEN /\ h_stdout' = "result"
                  /\ h_exit' = 0
                  /\ UNCHANGED h_diag
             ELSE IF \A m \in FormatExcImports :
                         m \in sys_modules \/ ImportAdmitted(whitelist, m)
             THEN /\ h_diag' = IF h_diag = NoDiag
                               THEN Diag("RUNTIME_ERROR", "diagnostic message")
                               ELSE h_diag
                  /\ h_exit' = 1
                  /\ UNCHANGED h_stdout
             ELSE /\ h_diag' = IF h_diag = NoDiag
                               THEN Diag("SECURITY_VIOLATION", "import forbidden")
                               ELSE h_diag
                  /\ h_exit' = 42
                  /\ UNCHANGED h_stdout
    /\ hpc' = "exited"
    /\ UNCHANGED <<runInputs, runVars, driverVars, validation, serverVars, raw_modules,
                   extra_allowed, whitelist, sys_modules>>

\* lines 510-515: SystemExit raised in the call passes the finally clause and
\* both except clauses, and the interpreter exits with the code it carries
UserExit ==
    /\ hpc = "user"
    /\ h_trace' = Append(h_trace, EndOp("exit"))
    /\ h_exit' = 0
    /\ hpc' = "exited"
    /\ UNCHANGED <<runInputs, runVars, driverVars, validation, serverVars, raw_modules,
                   extra_allowed, whitelist, sys_modules, h_stdout, h_diag>>

HarnessNext ==
    \/ HarnessStart
    \/ UserImport
    \/ UserCompile
    \/ UserReturn
    \/ UserExit

HarnessSpec == HarnessInit /\ [][HarnessNext]_vars

(***************************************************************************)
(* The /run handler run_code (src/main.py) with the static scan            *)
(* analyze_code (static_analyzer.py) it runs before the runner             *)
(***************************************************************************)
\* nodes yielded by ast.walk for a submission
MaxNodes == 2

FORBIDDEN_BUILTINS == {"eval", "exec", "compile", "open", "__import__"}
FORBIDDEN_MODULES == {"socket", "subprocess", "os", "sys"}

\* ast nodes as analyze_code looks at them: an Import with its aliases, an
\* ImportFrom with its module (<<>> is None, as in `from . import x`), a Call
\* with its callee (a Name or an Attribute), or any other node
NoFunc == [k |-> "none", id |-> "-"]
AstNode(k, names, module, func) ==
    [k |-> k, names |-> names, module |-> module, func |-> func]
ImportNode(names)      == AstNode("Import", names, <<>>, NoFunc)
ImportFromNode(module) == AstNode("ImportFrom", <<>>, module, NoFunc)
CallNode(fk, id)       == AstNode("Call", <<>>, <<>>, [k |-> fk, id |-> id])
PlainNode              == AstNode("Other", <<>>, <<>>, NoFunc)

DottedNames ==
    {<<"os">>, <<"os", "path">>, <<"sys">>, <<"socket">>, <<"subprocess">>,
     <<"json">>}

CalleeIds == FORBIDDEN_BUILTINS \cup {"print"}

AstNodes ==
    {ImportNode(<<n>>) : n \in DottedNames}
    \cup {ImportNode(<<<<"json">>, n>>) : n \in DottedNames}
    \cup {ImportFromNode(m) : m \in DottedNames \cup {<<>>}}
    \cup {CallNode("Name", id) : id \in CalleeIds}
    \cup {CallNode("Attribute", "eval"), PlainNode}

\* a submission's code: whether ast.parse accepts it and what ast.walk yields
ScanCode(ok, walk) == [syntax_ok |-> ok, walk |-> walk]

ScanCodes ==
    {ScanCode(FALSE, <<>>)} \cup {ScanCode(TRUE, w) : w \in SeqsUpTo(AstNodes, MaxNodes)}

Issue(kind, name) == [kind |-> kind, name |-> name]

IsForbiddenModule(name) == RootOf(name) \in FORBIDDEN_MODULES

NodeIssuesWholeName(node) ==
    IF node.k = "Call"
    THEN IF node.func.k = "Name" /\ node.func.id \in FORBIDDEN_BUILTINS
         THEN <<Issue("builtin", <<node.func.id>>)>>
         ELSE <<>>
    ELSE IF node.k = "Import"
    THEN LET bad == SelectSeq(node.names,
                              LAMBDA a : a \in {<<m>> : m \in FORBIDDEN_MODULES})
         IN  [i \in 1..Len(bad) |-> Issue("module", bad[i])]
    ELSE IF /\ node.k = "ImportFrom"
            /\ node.module \in {<<m>> : m \in FORBIDDEN_MODULES}
    THEN <<Issue("module", node.module)>>
    ELSE <<>>

\* static_analyzer.py lines 14-24, the body of the loop over ast.walk(tree)
NodeIssues(node) ==
    IF node.k = "Call"
    THEN IF node.func.k = "Name" /\ node.func.id \in FORBIDDEN_BUILTINS
         THEN <<Issue("builtin", <<node.func.id>>)>>
         ELSE <<>>
    ELSE IF node.k = "Import"
    THEN LET bad == SelectSeq(node.names, IsForbiddenModule)
         IN  [i \in 1..Len(bad) |-> Issue("module", bad[i])]
    ELSE IF /\ node.k = "ImportFrom"
            /\ node.module # <<>>
            /\ IsForbiddenModule(node.module)
    THEN <<Issue("module", node.module)>>
    ELSE <<>>

RECURSIVE WalkIssues(_)
WalkIssues(walk) ==
    IF walk = <<>> THEN <<>>
    ELSE NodeIssues(Head(walk)) \o WalkIssues(Tail(walk))

\* static_analyzer.py lines 6-25
analyze_code(code) ==
    IF ~code.syntax_ok THEN <<Issue("syntax", <<>>)>> ELSE WalkIssues(code.walk)

\* the JSON body: whether every required field is present; tests as a list of
\* records with parameters and results, a list with another element, or a
\* value that cannot be iterated; the language; the code
Request(f, t, l, c) == [fields_ok |-> f, tests |-> t, language |-> l, code |-> c]

Requests ==
    {Request(TRUE, "records", "python", c) : c \in ScanCodes}
    \cup {Request(f, t, l, c) :
              f \in BOOLEAN, t \in {"records", "bad_element", "not_iterable"},
              l \in {"python", "other"},
              c \in {ScanCode(TRUE, <<>>), ScanCode(TRUE, <<ImportNode(<<<<"os">>>>)>>)}}

Answer(code, kind) == [code |-> code, kind |-> kind]

HandlerInit ==
    /\ user_code = [syntax_ok |-> TRUE, body |-> <<DefNode("f", <<"x">>)>>]
    /\ script_name = "f"
    /\ script_parameters = <<"x">>
    /\ Idle
    /\ validation = NoValue
    /\ HarnessOff
    /\ PoolOff
    /\ request \in Requests
    /\ rpc = "received"
    /\ issues = <<>>
    /\ submitted = FALSE
    /\ answer = NoAnswer
    /\ removal = Removal("off", {}, 0)

\* main.py lines 33-82: the envelope checks, the static scan, and the hand-over
\* of runner.run to the executor; the except clause of lines 90-92
RunCodeCheck ==
    /\ rpc = "received"
    /\ IF ~request.fields_ok
       THEN /\ answer' = Answer(400, "missing_field")
            /\ rpc' = "answered"
            /\ UNCHANGED <<issues, submitted>>
       ELSE IF request.tests = "not_iterable"
       THEN /\ answer' = Answer(500, "exception")
            /\ rpc' = "answered"
            /\ UNCHANGED <<issues, submitted>>
       ELSE IF request.tests = "bad_element"
       THEN /\ answer' = Answer(400, "invalid_test")
            /\ rpc' = "answered"
            /\ UNCHANGED <<issues, submitted>>
       ELSE IF request.language # "python"
       THEN /\ answer' = Answer(400, "language")
            /\ rpc' = "answered"
            /\ UNCHANGED <<issues, submitted>>
       ELSE /\ issues' = analyze_code(request.code)
            /\ IF issues' # <<>>
               THEN /\ answer' = Answer(400, "static")
                    /\ rpc' = "answered"
                    /\ UNCHANGED submitted
               ELSE /\ submitted' = TRUE
                    /\ rpc' = "running"
                    /\ UNCHANGED answer
    /\ UNCHANGED <<runInputs, runVars, driverVars, validation, harnessVars,
                   poolVars, request, removal>>

\* main.py lines 84-92: future.result() returns the result of run, or raises
\* what run raised
RunCodeAnswer ==
    /\ rpc = "running"
    /\ \E raised \in BOOLEAN :
          answer' = IF raised THEN Answer(500, "exception") ELSE Answer(200, "result")
    /\ rpc' = "answered"
    /\ UNCHANGED <<runInputs, runVars, driverVars, validation, harnessVars,
                   poolVars, request, issues, submitted, removal>>

HandlerNext == RunCodeCheck \/ RunCodeAnswer

HandlerSpec == HandlerInit /\ [][HandlerNext]_vars

(***************************************************************************)
(* Calls of run executing concurrently on the executor's threads, all      *)
(* through the one DockerCodeRunner instance of src/main.py                *)
(***************************************************************************)
\* calls of run in progress at the same time
MaxRuns == 2

Runs == 1..MaxRuns

\* names tempfile.mkdtemp can return and ids the daemon can give a container
DirNames == 1..MaxRuns
ContainerIds == 1..MaxRuns

\* the locals of one call; 0 is a local that is not bound
Call(p, d, c) == [pc |-> p, temp_dir |-> d, container |-> c]

\* one use of a directory or container by a call, with the call that made it
Use(r, kind, op, owner) == [run |-> r, kind |-> kind, op |-> op, owner |-> owner]

DirUse(r, op) == Use(r, "dir", op, host_dirs[calls[r].temp_dir])
ContainerUse(r, op) == Use(r, "container", op, containers[calls[r].container])

ConcurrentInit ==
    /\ user_code = [syntax_ok |-> TRUE, body |-> <<DefNode("f", <<"x">>)>>]
    /\ script_name = "f"
    /\ script_parameters = <<"x">>
    /\ Idle
    /\ validation = NoValue
    /\ HarnessOff
    /\ HandlerOff
    /\ calls = [r \in Runs |-> Call("validate", 0, 0)]
    /\ host_dirs = [d \in DirNames |-> 0]
    /\ containers = [c \in ContainerIds |-> 0]
    /\ touched = {}

PoolUnchanged == UNCHANGED <<runInputs, runVars, driverVars, validation,
                             harnessVars, handlerVars>>

\* line 29: _validate_function returns or raises; it reads its arguments only
PoolValidate(r) ==
    /\ calls[r].pc = "validate"
    /\ \E ok \in BOOLEAN :
          calls' = [calls EXCEPT ![r].pc = IF ok THEN "mkdtemp" ELSE "done"]
    /\ UNCHANGED <<host_dirs, containers, touched>>
    /\ PoolUnchanged

PoolMakeTempDirShared(r) ==
    /\ calls[r].pc = "mkdtemp"
    /\ LET d == Min(DirNames)
       IN  /\ host_dirs' = IF host_dirs[d] = 0 THEN [host_dirs EXCEPT ![d] = r]
                           ELSE host_dirs
           /\ calls' = [calls EXCEPT ![r] = Call("start", d, 0)]
           /\ touched' = touched \cup {Use(r, "dir", "create", host_dirs'[d])}
    /\ UNCHANGED containers
    /\ PoolUnchanged

\* line 31: tempfile.mkdtemp creates a directory under a name not in use
PoolMakeTempDir(r) ==
    /\ calls[r].pc = "mkdtemp"
    /\ \E d \in DirNames :
          /\ host_dirs[d] = 0
          /\ host_dirs' = [host_dirs EXCEPT ![d] = r]
          /\ calls' = [calls EXCEPT ![r] = Call("start", d, 0)]
          /\ touched' = touched \cup {Use(r, "dir", "create", r)}
    /\ UNCHANGED containers
    /\ PoolUnchanged

\* line 37 and _start_container: the daemon starts a new container under an id
\* it has not given out before, or raises
PoolStartContainer(r) ==
    /\ calls[r].pc = "start"
    /\ \/ \E c \in ContainerIds :
             /\ containers[c] = 0
             /\ containers' = [containers EXCEPT ![c] = r]
             /\ calls' = [calls EXCEPT ![r].pc = "generate", ![r].container = c]
             /\ touched' = touched \cup {Use(r, "container", "create", r)}
       \/ /\ calls' = [calls EXCEPT ![r].pc = "cleanup"]
          /\ UNCHANGED <<containers, touched>>
    /\ UNCHANGED host_dirs
    /\ PoolUnchanged

\* lines 40-70: pip runs in the container, main.py and test_script.py are
\* written into temp_dir; any of the daemon calls may raise
PoolGenerateFiles(r) ==
    /\ calls[r].pc = "generate"
    /\ \/ /\ calls' = [calls EXCEPT ![r].pc = "upload"]
          /\ touched' = touched \cup {ContainerUse(r, "exec"), DirUse(r, "write")}
       \/ /\ calls' = [calls EXCEPT ![r].pc = "cleanup"]
          /\ touched' = touched \cup {ContainerUse(r, "exec")}
    /\ UNCHANGED <<host_dirs, containers>>
    /\ PoolUnchanged

\* line 73, _prepare_container: temp_dir is packed and put into the container
PoolUpload(r) ==
    /\ calls[r].pc = "upload"
    /\ touched' = touched \cup {DirUse(r, "read"), ContainerUse(r, "put")}
    /\ \E ok \in BOOLEAN :
          calls' = [calls EXCEPT ![r].pc = IF ok THEN "exec" ELSE "cleanup"]
    /\ UNCHANGED <<host_dirs, containers>>
    /\ PoolUnchanged

\* lines 76-77, _run_tests: the driver is executed in the container
PoolRunTests(r) ==
    /\ calls[r].pc = "exec"
    /\ touched' = touched \cup {ContainerUse(r, "exec")}
    /\ calls' = [calls EXCEPT ![r].pc = "cleanup"]
    /\ UNCHANGED <<host_dirs, containers>>
    /\ PoolUnchanged

\* lines 79-81, _cleanup_container: kill and remove the container bound to the
\* local, when it is bound; kill or remove may raise and leave it
PoolCleanupContainer(r) ==
    /\ calls[r].pc = "cleanup"
    /\ IF calls[r].container = 0
       THEN UNCHANGED <<containers, touched>>
       ELSE /\ touched' = touched \cup {ContainerUse(r, "kill")}
            /\ \E ok \in BOOLEAN :
                  containers' = IF ok THEN [containers EXCEPT ![calls[r].container] = -1]
                                ELSE containers
    /\ calls' = [calls EXCEPT ![r].pc = "rmtree"]
    /\ UNCHANGED host_dirs
    /\ PoolUnchanged

\* lines 87-88: shutil.rmtree(temp_dir)
PoolRemoveTempDir(r) ==
    /\ calls[r].pc = "rmtree"
    /\ touched' = touched \cup {DirUse(r, "remove")}
    /\ host_dirs' = [host_dirs EXCEPT ![calls[r].temp_dir] = 0]
    /\ calls' = [calls EXCEPT ![r].pc = "done"]
    /\ UNCHANGED containers
    /\ PoolUnchanged

ConcurrentNext ==
    \E r \in Runs :
        \/ PoolValidate(r)
        \/ PoolMakeTempDir(r)
        \/ PoolStartContainer(r)
        \/ PoolGenerateFiles(r)
        \/ PoolUpload(r)
        \/ PoolRunTests(r)
        \/ PoolCleanupContainer(r)
        \/ PoolRemoveTempDir(r)

ConcurrentSpec == ConcurrentInit /\ [][ConcurrentNext]_vars

(***************************************************************************)
(* Calls of run executing concurrently with one /image/remove request for  *)
(* the image the calls were given                                          *)
(***************************************************************************)
ServiceInit ==
    /\ user_code = [syntax_ok |-> TRUE, body |-> <<DefNode("f", <<"x">>)>>]
    /\ script_name = "f"
    /\ script_parameters = <<"x">>
    /\ Idle
    /\ validation = NoValue
    /\ HarnessOff
    /\ request = NoRequest
    /\ rpc = "off"
    /\ issues = <<>>
    /\ submitted = FALSE
    /\ answer = NoAnswer
    /\ removal = Removal("list", {}, 0)
    /\ calls = [r \in Runs |-> Call("validate", 0, 0)]
    /\ host_dirs = [d \in DirNames |-> 0]
    /\ containers = [c \in ContainerIds |-> 0]
    /\ touched = {}

RemovalUnchanged == UNCHANGED <<runInputs, runVars, driverVars, validation,
                               harnessVars, request, rpc, issues, submitted,
                               answer, calls, host_dirs>>

\* main.py line 167: every container of the image, running or not
RemoveListContainers ==
    /\ removal.pc = "list"
    /\ removal' = Removal("stop", {c \in ContainerIds : containers[c] \in Runs}, 0)
    /\ UNCHANGED <<containers, touched>>
    /\ RemovalUnchanged

\* main.py lines 168-170: container.stop() on the next container of the list;
\* it raises when the container is gone, and the handler answers 500
RemoveStopContainer ==
    /\ removal.pc = "stop"
    /\ \E c \in removal.listed :
          IF containers[c] \in Runs
          THEN /\ removal' = Removal("remove", removal.listed \ {c}, c)
               /\ touched' = touched \cup {Use(0, "container", "stop", containers[c])}
          ELSE /\ removal' = Removal("done", {}, 0)
               /\ UNCHANGED touched
    /\ UNCHANGED containers
    /\ RemovalUnchanged

\* main.py line 171: container.remove() on the container just stopped
RemoveRemoveContainer ==
    /\ removal.pc = "remove"
    /\ LET c == removal.stopped
       IN  IF containers[c] \in Runs
           THEN /\ removal' = Removal("stop", removal.listed, 0)
                /\ touched' = touched \cup {Use(0, "container", "remove", containers[c])}
                /\ containers' = [containers EXCEPT ![c] = -1]
           ELSE /\ removal' = Removal("done", {}, 0)
                /\ UNCHANGED <<containers, touched>>
    /\ RemovalUnchanged

\* main.py lines 173-195: the image and the dangling images are removed, or a
\* daemon call raises; the handler answers either way
RemoveImage ==
    /\ removal.pc = "stop"
    /\ removal.listed = {}
    /\ removal' = Removal("done", {}, 0)
    /\ UNCHANGED <<containers, touched>>
    /\ RemovalUnchanged

ServiceNext ==
    \/ ConcurrentNext
    \/ RemoveListContainers
    \/ RemoveStopContainer
    \/ RemoveRemoveContainer
    \/ RemoveImage

ServiceSpec == ServiceInit /\ [][ServiceNext]_vars

(***************************************************************************)
(* Properties of one call of run                                           *)
(***************************************************************************)
RunReturned == pc \in {"done", "responded"}

Performed(step) == \E i \in 1..Len(log) : log[i].step = step
Succeeded(step) == \E i \in 1..Len(log) : log[i] = Step(step, TRUE)
Failed(step)    == \E i \in 1..Len(log) : log[i] = Step(step, FALSE)

ValidationFails ==
    ValidationOutcome(user_code, script_name, script_parameters).kind # "ok"

\* the pipeline steps between provisioning and teardown
PipelineSteps == {"install", "whitelist_upload", "whitelist_exec", "whitelist",
                  "stage", "upload", "exec", "map"}

\* C1: with cleanup enabled, once provisioning has begun, when run returns or
\* raises the session container has been killed once and removed once, and
\* neither it nor the manifest-probe container still exists
C1_NoContainerLeft ==
    (RunReturned /\ cleanup /\ Performed("provision")) =>
        /\ session \in {"absent", "removed"}
        /\ probe \in {"absent", "removed"}
        /\ (Succeeded("provision") => kills = 1 /\ removes = 1)

\* C2: when run returns or raises after validation has passed, the scratch
\* directory it created no longer exists
C2_ScratchDirRemoved ==
    (RunReturned /\ Succeeded("validate")) => temp_dir = "removed"

C2_Witness ==
    /\ pc = "done"
    /\ Succeeded("provision")
    /\ exc = "TeardownError"
    /\ temp_dir = "removed"

HasVerdicts(r) == r.t = "result" /\ "test_statuses" \in DOMAIN r.v

VerdictStatusIs(v, st) == "status" \in DOMAIN v.v /\ IsStr(v.v["status"], st)

\* C3: a result returned by run that carries test_statuses has status "fail"
\* when some verdict has status "fail"; status "success" implies that every
\* verdict is "success" and that the driver exited with code 0
C3_FailVerdictFailsResult ==
    (RunReturned /\ exc = "none" /\ HasVerdicts(result)) =>
        /\ (\E i \in 1..Len(result.v.test_statuses) :
               VerdictStatusIs(result.v.test_statuses[i], "fail"))
           => result.v.status = "fail"
        /\ result.v.status = "success" =>
              /\ driver_out.exit_code = 0
              /\ \A i \in 1..Len(result.v.test_statuses) :
                    VerdictStatusIs(result.v.test_statuses[i], "success")

\* C4: when a pipeline step has raised and teardown then fails too, the error
\* that leaves run is the error of the pipeline step
C4_TeardownNeverMasks ==
    (RunReturned /\ \E s \in PipelineSteps : Failed(s)) => exc = first_exc

\* reading `container` for _cleanup_container, container.kill(), container.remove()
TeardownSteps == {"teardown", "kill", "remove"}

Phase(step) ==
    CASE step = "validate" -> 1
      [] step = "mkdtemp" -> 2
      [] step = "provision" -> 3
      [] step = "install" -> 4
      [] step \in {"whitelist_probe", "whitelist_upload", "whitelist_exec",
                   "whitelist"} -> 5
      [] step \in {"stage", "upload"} -> 6
      [] step = "exec" -> 7
      [] step = "map" -> 8
      [] step \in TeardownSteps -> 9
      [] step = "rmtree" -> 10

\* C5: the steps of one call happen in the order validate, provision, install,
\* whitelist resolution, staging and upload, driver exec, mapping, teardown;
\* the driver harness is executed at most once and only after every earlier
\* step has succeeded; after a failed step only teardown and the removal of
\* the scratch directory are performed
C5_StepOrder ==
    /\ \A i, j \in 1..Len(log) : i < j => Phase(log[i].step) <= Phase(log[j].step)
    /\ Cardinality({i \in 1..Len(log) : log[i].step = "exec"}) <= 1
    /\ Performed("exec") =>
          \A s \in {"validate", "mkdtemp", "provision", "install", "whitelist",
                    "stage", "upload"} : Succeeded(s)
    /\ \A i, j \in 1..Len(log) :
          (i < j /\ ~log[i].ok) => log[j].step \in TeardownSteps \cup {"rmtree"}

C5_Witness ==
    /\ pc = "done"
    /\ Succeeded("exec")
    /\ Succeeded("whitelist_exec")
    /\ removes = 1

\* C6 as claimed: a non-zero exit of the installer ends the submission with a
\* result record of status "fail" that carries a top-level error
C6_InstallFailureIsReported ==
    (RunReturned /\ pip_exit = 1) =>
        /\ result.t = "result"
        /\ result.v.status = "fail"
        /\ "error" \in DOMAIN result.v

\* C6 amended: when the installer exits non-zero, run returns no result
\* record but raises (the install error, or the teardown error when teardown
\* raises as well), the handler answers 500 with an error message, the driver
\* harness is never run, and with cleanup enabled teardown is attempted once
C6_InstallFailureRaises ==
    (RunReturned /\ pip_exit = 1) =>
        /\ result = NoValue
        /\ exc \in {"InstallError", "TeardownError"}
        /\ (exc = "TeardownError") = (Failed("kill") \/ Failed("remove"))
        /\ ~Performed("exec")
        /\ cleanup => Cardinality({i \in 1..Len(log) : log[i].step = "kill"}) = 1
        /\ pc = "responded" => response.code = 500 /\ response.kind = "error"

C6_Witness ==
    /\ pc = "responded"
    /\ exc = "InstallError"
    /\ session = "removed"
    /\ response.code = 500

\* C7: when validation fails, run raises the validation error and neither a
\* scratch directory nor a container has been created
C7_ValidationBeforeResources ==
    ValidationFails =>
        /\ temp_dir = "none"
        /\ session = "absent"
        /\ probe = "absent"
        /\ container = "unbound"
        /\ RunReturned => exc \in {"SyntaxError", "FunctionMissing", "ParamMissing"}
        /\ \A i \in 1..Len(log) : log[i].step = "validate"

C7_Witness ==
    /\ pc = "done"
    /\ exc = "ParamMissing"
    /\ temp_dir = "none"
    /\ session = "absent"

\* C30: when starting the session container fails, run raises the
\* provisioning error itself, performs no install, upload or exec, and has
\* removed the scratch directory
C30_ProvisionFailureRaisesItself ==
    (RunReturned /\ Failed("provision")) =>
        /\ exc = "ProvisionError"
        /\ ~\E s \in PipelineSteps : Performed(s)
        /\ temp_dir = "removed"

(***************************************************************************)
(* Properties of submission validation                                     *)
(***************************************************************************)
\* positions of the top-level definitions of script_name in the submission
DefsOfName ==
    {i \in 1..Len(user_code.body) :
        /\ user_code.body[i].kind = "def"
        /\ user_code.body[i].name = script_name}

Declares(i, names) == Range(names) \subseteq Range(user_code.body[i].args)

Absent(i) == Range(script_parameters) \ Range(user_code.body[i].args)

C14_AdmitsDeclaredSubset ==
    Performed("validate") =>
        /\ Succeeded("validate") <=>
              /\ user_code.syntax_ok
              /\ \E i \in DefsOfName :
                    Range(user_code.body[i].args) \subseteq Range(script_parameters)
        /\ Failed("validate") => exc \in {"ParamMissing", "FunctionMissing"}

\* C14: validation admits exactly the submissions that parse and whose first
\* top-level function named script_name declares every name of
\* script_parameters; run raises the syntax error for a submission that does
\* not parse, function-missing when no top-level function has the name and
\* parameter-missing otherwise
C14_AdmitsDeclaredSuperset ==
    Performed("validate") =>
        /\ Succeeded("validate") <=>
              /\ user_code.syntax_ok
              /\ DefsOfName # {}
              /\ Declares(Min(DefsOfName), script_parameters)
        /\ Failed("validate") =>
              /\ RunReturned
              /\ exc = IF ~user_code.syntax_ok THEN "SyntaxError"
                       ELSE IF DefsOfName = {} THEN "FunctionMissing"
                       ELSE "ParamMissing"

\* def f(x) submitted with no required parameter is admitted
C14_Witness ==
    /\ Succeeded("validate")
    /\ Performed("mkdtemp")
    /\ script_parameters = <<>>
    /\ user_code.body = <<DefNode("f", <<"x">>)>>

(***************************************************************************)
(* Properties of the generated subject harness                             *)
(***************************************************************************)
\* C12: the function that main.py looks up and calls for each test case is
\* the function named by script_name
C12_HarnessCallsNamedFunction ==
    Performed("stage") => func_name \in {"none", script_name}

\* the operations of the user code that raised an audit event of a kind
Events(kind) == {k \in 1..Len(h_trace) : h_trace[k].op = kind /\ h_trace[k].event}

\* the subject process ended with exit code 42 at operation k
EndedAt(k) == k = Len(h_trace) /\ hpc = "exited" /\ h_exit = 42

\* C15: an import event is admitted exactly when the module root is in the
\* manifest or one of sys, json, builtins, and is none of os, sys, subprocess,
\* socket; any other import event ends the subject with exit code 42
C15_ImportAdmission ==
    \A k \in Events("import") :
        /\ h_trace[k].admitted <=>
              /\ h_trace[k].root \in raw_modules.roots \cup {"sys", "json", "builtins"}
              /\ h_trace[k].root \notin {"os", "sys", "subprocess", "socket"}
        /\ ~h_trace[k].admitted => EndedAt(k)

\* how the driver classifies the subject process once it has exited
DriverViews ==
    {RunTestCase(Child(FALSE, h_exit, out, h_diag)) :
        out \in IF h_stdout = "result" THEN {"equal", "differ"} ELSE {"invalid"}}

\* C16: a subject whose user function executes `import os` exits with code
\* 42, prints no result, and the driver classifies the case
\* SECURITY_VIOLATION
C16_ImportOsEndsSubject ==
    (/\ hpc = "exited"
     /\ \E k \in 1..Len(h_trace) : h_trace[k].op = "import" /\ h_trace[k].root = "os") =>
        /\ h_exit = 42
        /\ h_stdout = "none"
        /\ \A c \in DriverViews : c.type = "SECURITY_VIOLATION" /\ Truthy(c.error)

\* C17: a compile or exec event is admitted only when the frame that invoked
\* it is trusted; invoked from a user-code frame it ends the subject with
\* exit code 42 whatever frames lie further up the stack
C17_CompileNeedsTrustedCaller ==
    \A k \in Events("compile") :
        /\ h_trace[k].admitted => is_trusted_module(whitelist, h_trace[k].stack[2])
        /\ h_trace[k].stack[2] = MainFrame => EndedAt(k)

\* C18: under either resolver strategy every requested library is a module
\* root that the import hook of main.py admits (main.py builds WHITELIST from
\* /allowed_modules.json in the session, the file allowed_modules was read
\* from, and from allowed_modules itself)
C18_LibrariesImportable ==
    Succeeded("stage") =>
        \A i \in 1..Len(libraries) :
            ImportAdmitted(WHITELIST(allowed_modules, allowed_modules), libraries[i])

(***************************************************************************)
(* Properties of the driver harness and of the verdicts it yields          *)
(***************************************************************************)
\* the driver ran every test method and printed the verdict array
DriverCompleted ==
    /\ dpc \in {"exited", "mapped"}
    /\ driver_out.exit_code = 0
    /\ driver_out.stdout.k = "json"

Printed == driver_out.stdout.v.v

VerdictNamed(v, name) == IsStr(v.v["name"], name)

\* C8: a failing test case's verdict in test_statuses carries the error kind
\* that _run_test_case classified for it
C8_VerdictCarriesClassifiedKind ==
    (dpc = "mapped" /\ HasVerdicts(result)) =>
        \A k \in 1..Len(classified) :
            classified[k].list = "failure" =>
                \E i \in 1..Len(result.v.test_statuses) :
                    LET v == result.v.test_statuses[i]
                    IN  /\ VerdictNamed(v, classified[k].name)
                        /\ VerdictStatusIs(v, "fail")
                        /\ "error" \in DOMAIN v.v
                        /\ v.v["error"].t = "dict"
                        /\ IsStr(v.v["error"].v["type"], classified[k].type)

\* C9: the verdict produced for a test case has the id supplied with the
\* case, or the case's 1-based position when it has none
C9_VerdictIdIsCaseId ==
    DriverCompleted =>
        \A c \in 1..Len(tests) : \A i \in 1..Len(Printed) :
            VerdictNamed(Printed[i], script[c].name) =>
                IsStr(Printed[i].v["id"], TestIdOf(tests[c], c - 1))

\* C10: the printed array holds exactly one verdict per submitted test case
C10_OneVerdictPerCase ==
    DriverCompleted =>
        /\ Len(Printed) = Len(tests)
        /\ \A c \in 1..Len(tests) :
              Cardinality({i \in 1..Len(Printed) :
                              VerdictNamed(Printed[i], script[c].name)}) = 1

\* the generated test methods have pairwise different names
DistinctMethodNames ==
    \A a \in 1..Len(script) : \A b \in 1..Len(script) :
        script[a].name = script[b].name => a = b

\* C11: the i-th verdict of test_statuses is the verdict of the i-th test case
\* of the submission (already for submissions whose cases have different ids)
C11_VerdictsInCaseOrder ==
    (dpc = "mapped" /\ HasVerdicts(result) /\ DistinctMethodNames) =>
        \A c \in 1..Len(tests) :
            /\ c <= Len(result.v.test_statuses)
            /\ VerdictNamed(result.v.test_statuses[c], script[c].name)

\* the methods whose body reached _run_test_case and spawned a subject process
Spawned == {k \in 1..Len(classified) : classified[k].has_attrs}

\* C19: a child that exits non-zero within the timeout is classified
\* SECURITY_VIOLATION when the code is 42, else by the diagnostic on the first
\* JSON line of its stderr when there is one, else NON_ZERO_EXIT
C19_NonZeroExitClassification ==
    \A k \in Spawned :
        (~children[k].timeout /\ children[k].exit_code # 0) =>
            IF children[k].exit_code = 42
            THEN classified[k].type = "SECURITY_VIOLATION"
            ELSE IF children[k].diag.k = "json"
            THEN /\ classified[k].type = children[k].diag.type
                 /\ classified[k].error = children[k].diag.message
            ELSE classified[k].type = "NON_ZERO_EXIT"

\* C20: for a child that exits 0 within the timeout the case passes when the
\* last stdout line equals the expected value, is an ASSERTION_ERROR when it
\* differs and INVALID_OUTPUT when it is no JSON, whatever is on stderr
C20_ZeroExitVerdictFromStdout ==
    \A k \in Spawned :
        (~children[k].timeout /\ children[k].exit_code = 0) =>
            /\ children[k].stdout = "equal" => classified[k].list = "success"
            /\ children[k].stdout = "differ" =>
                  /\ classified[k].list = "failure"
                  /\ classified[k].type = "ASSERTION_ERROR"
            /\ children[k].stdout = "invalid" =>
                  /\ classified[k].list = "failure"
                  /\ classified[k].type = "INVALID_OUTPUT"

(***************************************************************************)
(* Properties of the mapping of a test run's output                        *)
(***************************************************************************)
Mapped == dpc = "mapped"

IsArray(out) == out.k = "json" /\ out.v.t = "list"

ArrayOf(out) == out.v.v

HasErrorRecord(r) == r.t = "result" /\ "error" \in DOMAIN r.v

VerdictFields == {"id", "name", "status"}

IsVerdict(x) == x.t = "dict" /\ VerdictFields \subseteq DOMAIN x.v

IsVerdictArray(out) ==
    IsArray(out) /\ \A i \in 1..Len(ArrayOf(out)) : IsVerdict(ArrayOf(out)[i])

\* C22: the mapped result carries a non-empty test_statuses exactly when
\* stdout was a JSON array of verdicts with at least one element; in every
\* other case, an empty array included, it carries a top-level error record
C22_VerdictsOrErrorRecord ==
    Mapped =>
        /\ result.t = "result"
        /\ IF IsVerdictArray(driver_out.stdout) /\ ArrayOf(driver_out.stdout) # <<>>
           THEN HasVerdicts(result) /\ result.v.test_statuses # <<>>
           ELSE HasErrorRecord(result) /\ ~HasVerdicts(result)

\* C23: an empty stdout is mapped to status fail with an error record of type
\* EMPTY_OUTPUT when stderr is empty too and of type RUNTIME_ERROR carrying
\* the stderr text otherwise
C23_EmptyStdoutMapping ==
    (Mapped /\ driver_out.stdout.k = "empty") =>
        /\ HasErrorRecord(result)
        /\ ~HasVerdicts(result)
        /\ result.v.status = "fail"
        /\ IF driver_out.stderr.empty
           THEN result.v.error.type = "EMPTY_OUTPUT"
           ELSE /\ result.v.error.type = "RUNTIME_ERROR"
                /\ result.v.error.message = JStr(driver_out.stderr)

C23_Witness ==
    /\ Mapped
    /\ driver_out.stdout.k = "empty"
    /\ ~driver_out.stderr.empty
    /\ result.v.error.type = "RUNTIME_ERROR"

\* the error type a marker word stands for
TypeOfMarker(m) == IF m = "SECURITY_ERROR" THEN "SECURITY_VIOLATION" ELSE m

\* C24: a non-empty stdout that is not a JSON array is mapped to status fail
\* with the error type of a marker found in stderr, or PARSE_ERROR when stderr
\* holds no marker, whether stdout is no JSON at all or JSON of another type
C24_NonArrayMappedByMarkers ==
    (Mapped /\ driver_out.stdout.k # "empty" /\ ~IsArray(driver_out.stdout)) =>
        /\ HasErrorRecord(result)
        /\ result.v.status = "fail"
        /\ IF driver_out.stderr.marks = {}
           THEN result.v.error.type = "PARSE_ERROR"
           ELSE \E m \in driver_out.stderr.marks :
                    result.v.error.type = TypeOfMarker(m)

\* C24 (amended): stdout that is not JSON is mapped to status fail with the
\* type of the first marker word, in the order SECURITY_ERROR, IMPORT_ERROR,
\* RUNTIME_ERROR, that stderr contains, or PARSE_ERROR when it contains none;
\* stdout that is JSON of a non-array type is mapped to status fail with type
\* INVALID_TEST_STRUCTURE whatever stderr contains
C24_NonJsonByMarkersNonArrayInvalid ==
    (Mapped /\ driver_out.stdout.k # "empty" /\ ~IsArray(driver_out.stdout)) =>
        /\ HasErrorRecord(result)
        /\ ~HasVerdicts(result)
        /\ result.v.status = "fail"
        /\ LET marks == driver_out.stderr.marks
           IN  IF driver_out.stdout.k = "json"
               THEN result.v.error.type = "INVALID_TEST_STRUCTURE"
               ELSE result.v.error.type =
                        IF "SECURITY_ERROR" \in marks THEN "SECURITY_VIOLATION"
                        ELSE IF "IMPORT_ERROR" \in marks THEN "IMPORT_ERROR"
                        ELSE IF "RUNTIME_ERROR" \in marks THEN "RUNTIME_ERROR"
                        ELSE "PARSE_ERROR"

C24_Witness ==
    /\ Mapped
    /\ driver_out.stdout.k = "json"
    /\ ~IsArray(driver_out.stdout)
    /\ "SECURITY_ERROR" \in driver_out.stderr.marks
    /\ result.v.error.type = "INVALID_TEST_STRUCTURE"

\* C25: an array on stdout is adopted as test_statuses only if every element
\* is a record with the fields id, name and status; any other array yields a
\* result with status fail and a top-level error
C25_OnlyVerdictArraysAdopted ==
    (Mapped /\ IsArray(driver_out.stdout)) =>
        /\ result.t = "result"
        /\ HasVerdicts(result) => IsVerdictArray(driver_out.stdout)
        /\ ~IsVerdictArray(driver_out.stdout) =>
              /\ HasErrorRecord(result)
              /\ result.v.status = "fail"

SameVerdict(x, y) == \A f \in VerdictFields : x.v[f] = y.v[f]

\* C26: when the driver exits non-zero and stdout is a valid verdict array,
\* the result has that array as test_statuses, no top-level error record, and
\* status fail, even when every verdict is a success
C26_NonZeroExitKeepsVerdicts ==
    (Mapped /\ driver_out.exit_code # 0 /\ IsVerdictArray(driver_out.stdout)) =>
        /\ HasVerdicts(result)
        /\ ~HasErrorRecord(result)
        /\ result.v.status = "fail"
        /\ result.v.test_output = driver_out.stdout
        /\ Len(result.v.test_statuses) = Len(ArrayOf(driver_out.stdout))
        /\ \A i \in 1..Len(result.v.test_statuses) :
              SameVerdict(result.v.test_statuses[i], ArrayOf(driver_out.stdout)[i])

C26_Witness ==
    /\ Mapped
    /\ driver_out.exit_code # 0
    /\ IsVerdictArray(driver_out.stdout)
    /\ ArrayOf(driver_out.stdout) # <<>>
    /\ \A i \in 1..Len(ArrayOf(driver_out.stdout)) :
          VerdictStatusIs(ArrayOf(driver_out.stdout)[i], "success")
    /\ result.v.status = "fail"

\* C27: for a stdout that is an array of verdict records and a given exit
\* code, the mapped status, test_output and test_statuses are those the mapper
\* yields for every other content of stderr
C27_StderrDoesNotReachResult ==
    (Mapped /\ IsVerdictArray(driver_out.stdout)) =>
        \A e \in MapperStderrs :
            LET r == ParseTestResults(driver_out.stdout, e,
                                      driver_out.exit_code, install_output)
            IN  /\ ~r.raised
                /\ HasVerdicts(result)
                /\ "test_statuses" \in DOMAIN r.value
                /\ result.v.status = r.value.status
                /\ result.v.test_output = r.value.test_output
                /\ result.v.test_statuses = r.value.test_statuses

C27_Witness ==
    /\ Mapped
    /\ IsVerdictArray(driver_out.stdout)
    /\ ArrayOf(driver_out.stdout) # <<>>
    /\ driver_out.stderr.marks = ErrorMarkers
    /\ driver_out.exit_code = 0
    /\ HasVerdicts(result)
    /\ result.v.status = "success"

(***************************************************************************)
(* Progress of the driver after a per-case timeout                         *)
(***************************************************************************)
\* the per-case timeout expired for some subject process
TimeoutExpired ==
    \E k \in 1..Len(children) :
        /\ children[k].timeout
        /\ k <= Len(classified) => classified[k].has_attrs

\* C21: a subject still running when the per-case timeout expires is recorded
\* as a failure of kind TIMEOUT, and after such a timeout the driver goes on
\* to run every remaining case, prints the verdict array and terminates
C21_TimeoutThenDriverCompletes ==
    /\ [](\A k \in Spawned :
              children[k].timeout =>
                  /\ classified[k].list = "failure"
                  /\ classified[k].type = "TIMEOUT")
    /\ TimeoutExpired ~>
           (DriverCompleted /\ Len(classified) = Len(LoadTests(script)))

(***************************************************************************)
(* Properties of the static scan in front of the runner                    *)
(***************************************************************************)
\* the request passes the checks that run_code makes before the scan
ReachesScan(req) ==
    req.fields_ok /\ req.tests = "records" /\ req.language = "python"

ImportsForbidden(node) ==
    \/ /\ node.k = "Import"
       /\ \E i \in 1..Len(node.names) : node.names[i][1] \in FORBIDDEN_MODULES
    \/ /\ node.k = "ImportFrom"
       /\ node.module # <<>>
       /\ node.module[1] \in FORBIDDEN_MODULES

CallsForbidden(node) ==
    node.k = "Call" /\ node.func.k = "Name" /\ node.func.id \in FORBIDDEN_BUILTINS

HasForbiddenConstruct(code) ==
    \E i \in 1..Len(code.walk) :
        ImportsForbidden(code.walk[i]) \/ CallsForbidden(code.walk[i])

\* C29: for code with an import or from-import rooted in os, sys, subprocess
\* or socket, or a call of the bare name eval, exec, compile, open or
\* __import__, the scan yields issues and /run answers 400 without handing
\* anything to the runner; code that parses and has no such construct yields
\* no issue
C29_StaticScanRejectsForbidden ==
    rpc \in {"running", "answered"} =>
        /\ HasForbiddenConstruct(request.code) => ~submitted
        /\ (ReachesScan(request) /\ HasForbiddenConstruct(request.code)) =>
              /\ issues # <<>>
              /\ rpc = "answered"
              /\ answer = Answer(400, "static")
        /\ (ReachesScan(request) /\ request.code.syntax_ok
                /\ ~HasForbiddenConstruct(request.code)) =>
              /\ issues = <<>>
              /\ submitted

C29_Witness ==
    /\ rpc = "answered"
    /\ ReachesScan(request)
    /\ \E i \in 1..Len(request.code.walk) :
          /\ request.code.walk[i].k = "ImportFrom"
          /\ request.code.walk[i].module = <<"os", "path">>
    /\ ~\E i \in 1..Len(request.code.walk) :
          request.code.walk[i].module # <<"os", "path">>
    /\ answer = Answer(400, "static")
    /\ ~submitted

(***************************************************************************)
(* Properties of concurrent calls of run                                   *)
(***************************************************************************)
Live(r) == calls[r].pc \notin {"validate", "mkdtemp", "done"}

\* C28: in every interleaving of concurrent calls of run, each directory and
\* container a call writes to, uploads from, executes in or tears down was
\* made by that call, and two calls in progress never hold the same scratch
\* directory or the same container
C28_RunsShareNothing ==
    /\ \A u \in touched : u.owner = u.run
    /\ \A r1, r2 \in DOMAIN calls :
          (r1 # r2 /\ Live(r1) /\ Live(r2)) =>
              /\ calls[r1].temp_dir # calls[r2].temp_dir
              /\ (calls[r1].container # 0 => calls[r1].container # calls[r2].container)

C28_Witness ==
    /\ DOMAIN calls # {}
    /\ \A r \in DOMAIN calls : calls[r].pc = "exec"
    /\ \A r \in DOMAIN calls :
          {Use(r, "dir", "read", r), Use(r, "container", "put", r)} \subseteq touched

\* C33: for every stdout, stderr and exit code the mapper returns a result
\* record and raises nothing
C33_MapperIsTotal ==
    Mapped => (result.t = "result" /\ exc = "none")

\* C34: a record returned by the mapper has status success or fail, carries
\* exactly one of test_statuses and a top-level error, has status fail when it
\* carries the error, and carries install_output
C34_ResultRecordShape ==
    (Mapped /\ result.t = "result") =>
        /\ result.v.status \in {"success", "fail"}
        /\ HasVerdicts(result) # HasErrorRecord(result)
        /\ HasErrorRecord(result) => result.v.status = "fail"
        /\ "install_output" \in DOMAIN result.v
        /\ result.v.install_output = install_output

C34_Witness ==
    /\ Mapped
    /\ HasErrorRecord(result)
    /\ ~HasVerdicts(result)
    /\ driver_out.exit_code = 0
    /\ driver_out.stdout.k = "text"
    /\ result.v.status = "fail"

NeedsErrorRecord(x) ==
    /\ VerdictStatusIs(x, "fail")
    /\ "error" \notin DOMAIN x.v \/ x.v["error"].t # "dict"

\* C36: in an adopted array a fail record whose error is absent or no object
\* gets the error {type: TEST_FAILURE, message: the original error, or the
\* default text when there was none} and keeps its other fields; every other
\* record is unchanged, and so are the number and the order of the records
C36_FailErrorsNormalised ==
    (Mapped /\ HasVerdicts(result)) =>
        LET in == ArrayOf(driver_out.stdout)
            out == result.v.test_statuses
        IN  /\ Len(out) = Len(in)
            /\ \A i \in 1..Len(in) :
                  IF NeedsErrorRecord(in[i])
                  THEN /\ out[i].t = "dict"
                       /\ DOMAIN out[i].v = DOMAIN in[i].v \cup {"error"}
                       /\ \A f \in DOMAIN in[i].v \ {"error"} : out[i].v[f] = in[i].v[f]
                       /\ out[i].v["error"] =
                              JDict([type    |-> JStr("TEST_FAILURE"),
                                     message |-> IF "error" \in DOMAIN in[i].v
                                                 THEN in[i].v["error"]
                                                 ELSE JStr("test failed")])
                  ELSE out[i] = in[i]

C36_Witness ==
    /\ Mapped
    /\ HasVerdicts(result)
    /\ Len(ArrayOf(driver_out.stdout)) = 2
    /\ VerdictStatusIs(ArrayOf(driver_out.stdout)[1], "fail")
    /\ "error" \in DOMAIN ArrayOf(driver_out.stdout)[1].v
    /\ ArrayOf(driver_out.stdout)[1].v["error"].t = "dict"
    /\ NeedsErrorRecord(ArrayOf(driver_out.stdout)[2])
    /\ "error" \in DOMAIN ArrayOf(driver_out.stdout)[2].v
    /\ result.v.test_statuses[1] = ArrayOf(driver_out.stdout)[1]
    /\ result.v.test_statuses[2].v["error"].t = "dict"

\* C31: the manifest of the image is adopted only when it is a JSON array of
\* strings, and then the generator script is neither uploaded nor run; for any
\* other content the whitelist is generated inside the session container
C31_ManifestAdoptedOnlyIfStringArray ==
    /\ manifest \in {"none", "array_of_strings", "generated"}
    /\ manifest = "array_of_strings" =>
          /\ ~Performed("whitelist_upload")
          /\ ~Performed("whitelist_exec")
    /\ manifest = "generated" =>
          /\ Succeeded("whitelist_upload")
          /\ Succeeded("whitelist_exec")

\* C32: an import event for a root that is in the hook's blacklist ends the
\* subject with exit code 42, also when the whitelist lists that root
C32_BlacklistBeatsWhitelist ==
    \A k \in Events("import") :
        (h_trace[k].root \in BLACKLIST /\ h_trace[k].root \in whitelist) =>
            /\ ~h_trace[k].admitted
            /\ EndedAt(k)

\* how the call of the user function ended, "" while it has not
EndOfCall ==
    IF Len(h_trace) > 0 /\ h_trace[Len(h_trace)].op \in
           {"return_value", "return_none", "raise", "exit"}
    THEN h_trace[Len(h_trace)].op
    ELSE ""

\* C37: whenever the subject process exits with code 0, the last line of its
\* stdout is the JSON encoding of the value the user function returned
C37_ExitZeroLastLineIsResult ==
    (hpc = "exited" /\ h_exit = 0) => h_stdout = "result"

\* C39: when the user function returns None the subject prints no result,
\* exits with code 1 after writing a RUNTIME_ERROR diagnostic (the first
\* diagnostic on stderr unless the hook wrote one before), and every
\* classification the driver can make of it is a failure
C39_NoneReturnIsRuntimeError ==
    (hpc = "exited" /\ EndOfCall = "return_none") =>
        /\ h_stdout = "none"
        /\ h_exit = 1
        /\ h_diag.k = "json"
        /\ (\A k \in 1..Len(h_trace) : h_trace[k].admitted) => h_diag.type = "RUNTIME_ERROR"
        /\ \A c \in DriverViews : Truthy(c.error)

\* C38: a submission that parses and holds two or more top-level definitions
\* of script_name is rejected by _validate_function, and the outcome is the
\* one that examining any of those definitions gives
C38_DuplicateDefinitionsRejected ==
    (/\ validation # NoValue
     /\ user_code.syntax_ok
     /\ Cardinality(DefsOfName) >= 2) =>
        /\ validation.kind # "ok"
        /\ \A i \in DefsOfName :
              validation.kind = "ParamMissing" <=> ~Declares(i, script_parameters)

(***************************************************************************)
(* Properties of a call of run next to an /image/remove request            *)
(***************************************************************************)
\* the call holds a session container it started and has not yet torn down
HoldsSession(r) ==
    /\ calls[r].container # 0
    /\ calls[r].pc \in {"generate", "upload", "exec", "cleanup"}

\* C35: in every interleaving of calls of run with an /image/remove request
\* for their image, the session container of a call is neither stopped nor
\* removed by anything else between its start and the call's own teardown
C35_SessionContainerLeftAlone ==
    /\ \A r \in DOMAIN calls :
          HoldsSession(r) =>
              /\ containers[calls[r].container] = r
              /\ removal.stopped # calls[r].container
    /\ \A u \in touched : (u.kind = "container" /\ u.op \in {"stop", "remove"}) => u.run = u.owner
====
